---- MODULE Spec2Model ----
(***************************************************************************)
(* A model of the xelis-vm typed execution substrate:                      *)
(*   - the tree-walking interpreter (src/src/interpreter/mod.rs) with its  *)
(*     two resource meters and its scope stack (interpreter/stack.rs),     *)
(*   - the Path / ValueOwnable / InnerValue ownership layer                *)
(*     (src/types/src/path/mod.rs, src/types/src/values.rs),               *)
(*   - the Type operations (src/types/src/types/mod.rs),                   *)
(*   - the OpCode byte encoding (src/bytecode/src/opcode.rs).              *)
(* Each part has its own specification over its own variables; the other   *)
(* variables stay at their idle values.                                    *)
(***************************************************************************)
EXTENDS Integers, Sequences, FiniteSets, TLC

VARIABLES
    \* ---- Interpreter (struct Interpreter + struct State) ----
    program,        \* Interpreter.program
    max_expr,       \* Interpreter.max_expr
    max_recursive,  \* Interpreter.max_recursive
    count_expr,     \* State.count_expr
    recursive,      \* State.recursive
    last,           \* what the last call_entry_function did (observation record)
    ncalls          \* number of operations applied to the interpreter so far

interpVars == <<program, max_expr, max_recursive, count_expr, recursive, last, ncalls>>

VARIABLES
    \* ---- Path / ValueOwnable (types/src/path/mod.rs, types/src/values.rs) ----
    cells,          \* the Rc<RefCell<Value>> cells allocated so far, by identity
    constant,       \* the value v behind every Path::Borrowed(&v)
    snapshot,       \* the contents of v when it was first borrowed
    binding,        \* the Path registered for a variable in the stack's scope
    handles,        \* the Paths handed out so far, with the place each one stands for
    path_ops        \* number of Path operations applied so far

pathVars == <<cells, constant, snapshot, binding, handles, path_ops>>

VARIABLES
    \* ---- Type (types/src/types/mod.rs) ----
    ty_in,          \* the argument(s) of the Type operation under examination
    ty_out,         \* what the operation returned
    \* ---- OpCode (bytecode/src/opcode.rs) ----
    code_in,        \* the opcode or the byte to convert
    code_out        \* what as_byte / from_byte returned



VARIABLES
    \* ---- Views of shared cells (types/src/values.rs) ----
    aliases,        \* the ValueOwnable::Rc values made so far: the cell each one names
    flags,          \* the borrow flag of each cell's RefCell
    views,          \* the live Ref / RefMut guards, with the alias each was taken through
    view_last       \* the last operation on a cell and how it ended

viewVars == <<aliases, flags, views, view_last>>

VARIABLES
    \* ---- Optional receiver (builder/src/environment/xstd/optional.rs) ----
    receiver,       \* the Value the native optional methods are called on
    receiver_last   \* the last method called, the receiver before it and its result

optVars == <<receiver, receiver_last>>

typeVars == <<ty_in, ty_out>>
codeVars == <<code_in, code_out>>

VARIABLES
    \* ---- Stack (interpreter/stack.rs) ----
    stack,          \* the Stack: its scopes, and the result of the last operation
    stack_last      \* the last operation applied to it and what it observed

stackVars == <<stack, stack_last>>

VARIABLES
    \* ---- TypeManager (builder/src/manager/mod.rs) ----
    manager,        \* the TypeManager: its types and its name mapper
    manager_last    \* the last registration and what it observed

managerVars == <<manager, manager_last>>

-----------------------------------------------------------------------------
(* Bounds of the model *)

\* largest max_expr / max_recursive the interpreter is constructed with
MaxExprBound == 8
MaxRecBound == 3
\* largest amount one add_count_expr call pre-charges
MaxPrecharge == 2
\* operations applied to one interpreter
MaxCalls == 2
\* AST nodes one run may visit before the model stops following it
MaxSteps == 20

-----------------------------------------------------------------------------
(* Values of the interpreter (Value::Int, Value::Boolean, Value::Array, Value::Null) *)

VByte(n) == [t |-> "Byte", v |-> n]
VShort(n) == [t |-> "Short", v |-> n]
VInt(n) == [t |-> "Int", v |-> n]
\* Value::Struct(name, fields): fields maps the names to the values
VStruct(name, fields) == [t |-> "Struct", name |-> name, v |-> fields]
VBool(b) == [t |-> "Boolean", v |-> b]
VArray(s) == [t |-> "Array", v |-> s]
VNull == [t |-> "Null", v |-> 0]

\* Results of the evaluator: Ok(Some(v)), Ok(None), Err(e); a panic; and the
\* model's own "still running after MaxSteps nodes".
OkSome(v) == [k |-> "val", v |-> v]
OkNone == [k |-> "none", v |-> VNull]
Fallthrough == [k |-> "next", v |-> VNull]
Err(e) == [k |-> "err", v |-> [t |-> "Error", v |-> e]]
Panicked == [k |-> "panic", v |-> VNull]
StillRunning == [k |-> "cutoff", v |-> VNull]

Stopped(m) == m.res.k \in {"err", "panic", "cutoff"}
Unwinding(m) == m.res.k \in {"panic", "cutoff"}

-----------------------------------------------------------------------------
(* The AST: Expression and Statement (crate::expressions) *)

EValue(v) == [x |-> "Value", v |-> v]
EVariable(n) == [x |-> "Variable", name |-> n]
EFunctionCall(n, ps) == [x |-> "FunctionCall", name |-> n, params |-> ps]
EOperator(op, l, r) == [x |-> "Operator", op |-> op, l |-> l, r |-> r]
EIsNot(e) == [x |-> "IsNot", e |-> e]
\* fields: the (name, expression) pairs in the order they are written
EStructConstructor(n, fields) == [x |-> "StructConstructor", name |-> n, fields |-> fields]
ETernary(c, l, r) == [x |-> "Ternary", c |-> c, l |-> l, r |-> r]

SBreak == [s |-> "Break"]
SContinue == [s |-> "Continue"]
SVariable(n, e) == [s |-> "Variable", name |-> n, value |-> e]
SIf(c, b) == [s |-> "If", cond |-> c, body |-> b]
SElseIf(c, b) == [s |-> "ElseIf", cond |-> c, body |-> b]
SElse(b) == [s |-> "Else", body |-> b]
SFor(n, init, c, inc, b) ==
    [s |-> "For", name |-> n, value |-> init, cond |-> c, incr |-> inc, body |-> b]
SForEach(n, e, b) == [s |-> "ForEach", name |-> n, expr |-> e, body |-> b]
SWhile(c, b) == [s |-> "While", cond |-> c, body |-> b]
SReturn(e) == [s |-> "Return", opt |-> <<e>>]
SReturnNone == [s |-> "Return", opt |-> <<>>]
SScope(b) == [s |-> "Scope", body |-> b]
SExpression(e) == [s |-> "Expression", e |-> e]

\* FunctionType::Custom: name, parameters (name, type), statements, is_entry
Function(n, ps, body, entry) ==
    [name |-> n, for_type |-> "None", params |-> ps, body |-> body, is_entry |-> entry]

-----------------------------------------------------------------------------
(* Context: the scope stack and the loop flags (interpreter/stack.rs).     *)
(* The evaluator threads one record m through a run: the interpreter State *)
(* (count_expr, recursive), the current Context (scopes, loop_break,       *)
(* loop_continue), the result of the last evaluator call (res), and the    *)
(* observations of the run (invocations, executed, blocks, nest, rejected, *)
(* admitted, limit_at).                                                    *)

EmptyScope == [n \in {} |-> VNull]

BeginScope(m) == [m EXCEPT !.scopes = Append(@, EmptyScope)]

\* remove_last_scope: pop, or NoScopeFound
EndScope(m) ==
    IF Len(m.scopes) = 0
    THEN [m EXCEPT !.res = Err("NoScopeFound")]
    ELSE [m EXCEPT !.scopes = SubSeq(@, 1, Len(@) - 1)]

\* register_variable: insert into the last scope, no check for an existing name
RegisterVariable(m, name, value) ==
    IF Len(m.scopes) = 0
    THEN [m EXCEPT !.res = Err("NoScopeFound")]
    ELSE [m EXCEPT !.scopes[Len(m.scopes)] = (name :> value) @@ @]

\* what the lookup must not be: one that answers with the outermost scope
ScopeOfOutermost(scopes, name) ==
    LET hits == {i \in 1..Len(scopes) : name \in DOMAIN scopes[i]}
    IN  IF hits = {} THEN 0 ELSE CHOOSE i \in hits : \A j \in hits : i <= j

\* the innermost scope that binds name, 0 when none does
ScopeOf(scopes, name) ==
    LET hits == {i \in 1..Len(scopes) : name \in DOMAIN scopes[i]}
    IN  IF hits = {} THEN 0 ELSE CHOOSE i \in hits : \A j \in hits : j <= i

HasVariable(m, name) == ScopeOf(m.scopes, name) # 0
GetVariable(m, name) == m.scopes[ScopeOf(m.scopes, name)][name]

\* context.set_variable_value / the write through get_mut_variable
SetVariableValue(m, name, value) ==
    IF ~HasVariable(m, name)
    THEN [m EXCEPT !.res = Err("VariableNotFound")]
    ELSE [m EXCEPT !.scopes[ScopeOf(m.scopes, name)][name] = value]

-----------------------------------------------------------------------------
(* The meters *)

\* a meter charging two per node: what increment_expr must not be
IncrementExprTwice(m) ==
    LET c == m.count_expr + 2
    IN  IF max_expr # 0 /\ c >= max_expr
        THEN [m EXCEPT !.count_expr = c, !.res = [k |-> "err", v |-> [t |-> "Error", v |-> "LimitReached"]],
                       !.limit_at = [inv |-> m.invocations, exe |-> m.executed]]
        ELSE [m EXCEPT !.count_expr = c]

\* a meter that counts but never fails: what increment_expr must not be
IncrementExprUncapped(m) == [m EXCEPT !.count_expr = @ + 1]

\* increment_expr: count first, then compare with the cap (0 = no cap)
IncrementExpr(m) ==
    LET c == m.count_expr + 1
    IN  IF max_expr # 0 /\ c >= max_expr
        THEN [m EXCEPT !.count_expr = c, !.res = Err("LimitReached"),
                       !.limit_at = [inv |-> m.invocations, exe |-> m.executed]]
        ELSE [m EXCEPT !.count_expr = c]

\* the recursion check of Expression::FunctionCall, after `recursive += 1`
OverRecursiveLimit(r) == r >= max_recursive

\* Observation: the evaluator takes up one more AST node (a call of
\* execute_expression, or one iteration of the statement loop).
Visit(m) ==
    IF m.invocations >= MaxSteps
    THEN [m EXCEPT !.res = StillRunning]
    ELSE [m EXCEPT !.invocations = @ + 1]

\* Observation: the node passed the meter and its match arm starts.
Started(m) == [m EXCEPT !.executed = @ + 1]

\* Observation: an If, ElseIf or Else statement was passed by a statement
\* sequence at nesting depth `depth`; before/after are accept_else around
\* it, cond what its condition gave, fired whether its body ran.
LogLatch(m, kind, before) ==
    [m EXCEPT !.latches = @ \cup {[kind |-> kind, before |-> before, after |-> m.accept_else,
                                    cond |-> m.cond, fired |-> m.fired]}]

\* Observation: a block construct finished; before/after are scope depths,
\* flagged tells that loop_break or loop_continue is set when it finishes.
LogBlock(m, kind, before) ==
    [m EXCEPT !.blocks = @ \cup {[kind |-> kind, before |-> before,
                                  after |-> Len(m.scopes), how |-> m.res.k,
                                  flagged |-> m.loop_break \/ m.loop_continue]}]

-----------------------------------------------------------------------------
(* Values: accessors and operators *)

NumberTypes == {"Byte", "Short", "Int"}
IsNumber(v) == v.t \in NumberTypes

\* Type::from_value: None for Null
HasType(v) == v.t # "Null"

\* the compound assignments and the binary operators they apply
BinaryOf ==
    [AssignPlus |-> "Plus", AssignMinus |-> "Minus", AssignMultiply |-> "Multiply",
     AssignDivide |-> "Divide", AssignModulo |-> "Modulo"]

IsAssignation(op) == op = "Assign" \/ op \in DOMAIN BinaryOf
IsAndOrOr(op) == op \in {"And", "Or"}
IsNumberOperator(op) ==
    op \in DOMAIN BinaryOf \cup {"Plus", "Minus", "Multiply", "Divide", "Modulo", "LessThan"}

\* The overflow flag of overflowing_add / overflowing_sub on the type's width:
\* u8 for Byte, u16 for Short; Int is u64 (to_int() is what call_entry_function
\* returns as u64), and the Int values of the model's programs stay far below it.
Overflows(t, n) ==
    \/ n < 0
    \/ t = "Byte" /\ n >= 2^8
    \/ t = "Short" /\ n >= 2^16

\* The overflow flag of overflowing_mul, found without forming the product
MulOverflows(t, a, b) ==
    /\ a # 0
    /\ \/ t = "Byte" /\ b > (2^8 - 1) \div a
       \/ t = "Short" /\ b > (2^16 - 1) \div a

\* what the arithmetic of the evaluator must not be: the wrapping result of
\* overflowing_add / _sub / _mul handed on without looking at the flag
ArithWrapping(op, t, a, b) ==
    LET width == IF t = "Byte" THEN 2^8 ELSE 2^16
    IN  CASE op = "Plus" -> OkSome([t |-> t, v |-> (a + b) % width])
          [] op = "Minus" -> OkSome([t |-> t, v |-> (a - b) % width])
          [] op = "Multiply" -> OkSome([t |-> t, v |-> ((a % 2^8) * (b % 2^8)) % width])
          [] op = "Divide" ->
                IF b = 0 THEN Err("DivByZero") ELSE OkSome([t |-> t, v |-> a \div b])
          [] op = "Modulo" -> IF b = 0 THEN Panicked ELSE OkSome([t |-> t, v |-> a % b])
          [] op = "LessThan" -> OkSome(VBool(a < b))
          [] OTHER -> Err("UnexpectedOperator")

\* exec!(overflowing_add ...), exec!(overflowing_sub ...), exec!(overflowing_mul
\* ...), div!, the unchecked `%` (a zero divisor panics), and `<`
Arith(op, t, a, b) ==
    CASE op = "Plus" ->
            IF Overflows(t, a + b) THEN Err("OverflowOccured")
            ELSE OkSome([t |-> t, v |-> a + b])
      [] op = "Minus" ->
            IF Overflows(t, a - b) THEN Err("OverflowOccured")
            ELSE OkSome([t |-> t, v |-> a - b])
      [] op = "Multiply" ->
            IF MulOverflows(t, a, b) THEN Err("OverflowOccured")
            ELSE OkSome([t |-> t, v |-> a * b])
      [] op = "Divide" ->
            IF b = 0 THEN Err("DivByZero") ELSE OkSome([t |-> t, v |-> a \div b])
      [] op = "Modulo" ->
            IF b = 0 THEN Panicked ELSE OkSome([t |-> t, v |-> a % b])
      [] op = "LessThan" -> OkSome(VBool(a < b))
      [] OTHER -> Err("UnexpectedOperator")

\* Observation: an arithmetic operator was applied to two numbers of type t;
\* name is the assigned variable of a compound assignment ("" for a binary
\* operator), before and after its value around the evaluation.
LogOperator(m, op, t, l, r, name, out) ==
    [m EXCEPT !.ops = @ \cup
        {[op |-> op, t |-> t, l |-> l, r |-> r, how |-> out.k,
          err |-> IF out.k = "err" THEN out.v.v ELSE "",
          value |-> IF out.k = "val" THEN out.v.v ELSE 0 - 1,
          compound |-> name # "",
          after |-> IF name = "" THEN 0 - 1 ELSE GetVariable(m, name).v]}]

-----------------------------------------------------------------------------
(* The evaluator: execute_expression, execute_statements, execute_function *)

\* Every call of one method of the interpreter by another goes through
\* SelfCall, the one recursive definition of the evaluator.
RECURSIVE SelfCall(_, _)

\* get_function with for_type = None: the first function, program functions
\* before environment functions, with this name and arity, no receiver type,
\* and every parameter type Any or equal to the argument type; 0 when none.
GetFunction(name, types) ==
    LET fs == program.functions
        ok(f) == /\ f.name = name
                 /\ Len(f.params) = Len(types)
                 /\ f.for_type = "None"
                 /\ \A i \in 1..Len(types) :
                        f.params[i].type = "Any" \/ f.params[i].type = types[i]
        hits == {i \in 1..Len(fs) : ok(fs[i])}
    IN  IF hits = {} THEN 0 ELSE CHOOSE i \in hits : \A j \in hits : i <= j

\* execute_expression_and_expect_value
ExpectValue(e, m) ==
    LET r == SelfCall("ExecuteExpression", <<e, m>>)
    IN  IF Stopped(r) THEN r
        ELSE IF r.res.k = "none" THEN [r EXCEPT !.res = Err("ExpectedValue")]
        ELSE r

\* the parameters of a FunctionCall, left to right
EvalParams(params, i, vals, m) ==
    IF i > Len(params) THEN [m EXCEPT !.res = OkSome(VArray(vals))]
    ELSE LET r == SelfCall("ExpectValue", <<params[i], m>>)
         IN  IF Stopped(r) THEN r
             ELSE SelfCall("EvalParams", <<params, i + 1, Append(vals, r.res.v), r>>)

\* Expression::FunctionCall, after increment_expr
FunctionCall(e, m) ==
    LET a == SelfCall("EvalParams", <<e.params, 1, <<>>, m>>)
    IN  IF Stopped(a) THEN a
        ELSE
        LET values == a.res.v.v
            b == [a EXCEPT !.recursive = @ + 1, !.nest = @ + 1]
        IN  IF OverRecursiveLimit(b.recursive)
            THEN [b EXCEPT !.res = Err("RecursiveLimitReached"),
                           !.rejected = @ \cup {b.nest}, !.nest = @ - 1]
            ELSE
            LET c == [b EXCEPT !.admitted = @ \cup {b.nest}]
                typed == \A i \in 1..Len(values) : HasType(values[i])
                types == [i \in 1..Len(values) |-> values[i].t]
                fi == IF typed THEN GetFunction(e.name, types) ELSE 0
            IN  IF ~typed
                THEN [c EXCEPT !.res = Err("TypeNotFound"), !.nest = @ - 1]
                ELSE IF fi = 0
                THEN [c EXCEPT !.res = Err("FunctionNotFound"), !.nest = @ - 1]
                ELSE LET r == SelfCall("ExecuteFunction", <<program.functions[fi], values, c>>)
                     IN  IF Unwinding(r) THEN r
                         ELSE [r EXCEPT !.recursive = @ - 1, !.nest = @ - 1]

\* Expression::Operator with an assignment operator, after increment_expr:
\* the right side first, then the path of the left side (get_from_path)
Assignation(e, m) ==
    LET r == SelfCall("ExpectValue", <<e.r, m>>)
    IN  IF Stopped(r) THEN r
        ELSE IF e.l.x # "Variable" THEN [r EXCEPT !.res = Err("ExpectedPath")]
        ELSE IF ~HasVariable(r, e.l.name) THEN [r EXCEPT !.res = Err("VariableNotFound")]
        ELSE
        LET value == r.res.v
            path_value == GetVariable(r, e.l.name)
        IN  IF ~HasType(path_value) \/ ~HasType(value)
            THEN [r EXCEPT !.res = Err("TypeNotFound")]
            ELSE IF /\ (~IsNumber(path_value) \/ ~IsNumber(value) \/ path_value.t # value.t)
                    /\ IsNumberOperator(e.op)
            THEN [r EXCEPT !.res = Err("OperationNotNumberType")]
            ELSE IF e.op = "Assign"
            THEN [SetVariableValue(r, e.l.name, value) EXCEPT !.res = OkNone]
            ELSE LET out == Arith(BinaryOf[e.op], path_value.t, path_value.v, value.v)
                     w == IF out.k = "val"
                          THEN [SetVariableValue(r, e.l.name, out.v) EXCEPT !.res = OkNone]
                          ELSE [r EXCEPT !.res = out]
                 IN  LogOperator(w, e.op, path_value.t, path_value.v, value.v, e.l.name, out)

\* what && and || must not be: operators that evaluate both operands
BinaryOperatorEager(e, m) ==
    LET l == SelfCall("ExpectValue", <<e.l, m>>)
    IN  IF Stopped(l) THEN l
        ELSE IF ~HasType(l.res.v) THEN [l EXCEPT !.res = Err("TypeNotFound")]
        ELSE
        LET left == l.res.v
        IN  IF IsAndOrOr(e.op)
            THEN IF left.t # "Boolean" THEN [l EXCEPT !.res = Err("InvalidValue")]
                 ELSE LET r == SelfCall("ExpectValue", <<e.r, l>>)
                      IN  IF Stopped(r) THEN r
                          ELSE IF r.res.v.t # "Boolean"
                          THEN [r EXCEPT !.res = Err("InvalidValue")]
                          ELSE IF e.op = "And"
                          THEN [r EXCEPT !.res = OkSome(VBool(left.v /\ r.res.v.v))]
                          ELSE [r EXCEPT !.res = OkSome(VBool(left.v \/ r.res.v.v))]
            ELSE
            LET r == SelfCall("ExpectValue", <<e.r, l>>)
            IN  IF Stopped(r) THEN r
                ELSE IF ~HasType(r.res.v) THEN [r EXCEPT !.res = Err("TypeNotFound")]
                ELSE
                LET right == r.res.v
                IN  IF /\ (~IsNumber(left) \/ ~IsNumber(right) \/ right.t # left.t)
                       /\ IsNumberOperator(e.op)
                    THEN [r EXCEPT !.res = Err("OperationNotNumberType")]
                    ELSE LET out == Arith(e.op, left.t, left.v, right.v)
                         IN  IF e.op = "LessThan"
                             THEN LogOperator([r EXCEPT !.res = out], e.op, left.t, left.v,
                                              right.v, "", OkSome(VInt(IF out.v.v THEN 1 ELSE 0)))
                             ELSE LogOperator([r EXCEPT !.res = out], e.op, left.t,
                                              left.v, right.v, "", out)

\* Expression::Operator with any other operator, after increment_expr
BinaryOperator(e, m) ==
    LET l == SelfCall("ExpectValue", <<e.l, m>>)
    IN  IF Stopped(l) THEN l
        ELSE IF ~HasType(l.res.v) THEN [l EXCEPT !.res = Err("TypeNotFound")]
        ELSE
        LET left == l.res.v
        IN  IF IsAndOrOr(e.op)
            THEN IF left.t # "Boolean" THEN [l EXCEPT !.res = Err("InvalidValue")]
                 ELSE IF e.op = "And" /\ ~left.v THEN [l EXCEPT !.res = OkSome(VBool(FALSE))]
                 ELSE IF e.op = "Or" /\ left.v THEN [l EXCEPT !.res = OkSome(VBool(TRUE))]
                 ELSE LET r == SelfCall("ExpectValue", <<e.r, l>>)
                      IN  IF Stopped(r) THEN r
                          ELSE IF r.res.v.t # "Boolean"
                          THEN [r EXCEPT !.res = Err("InvalidValue")]
                          ELSE r
            ELSE
            LET r == SelfCall("ExpectValue", <<e.r, l>>)
            IN  IF Stopped(r) THEN r
                ELSE IF ~HasType(r.res.v) THEN [r EXCEPT !.res = Err("TypeNotFound")]
                ELSE
                LET right == r.res.v
                IN  IF /\ (~IsNumber(left) \/ ~IsNumber(right) \/ right.t # left.t)
                       /\ IsNumberOperator(e.op)
                    THEN [r EXCEPT !.res = Err("OperationNotNumberType")]
                    ELSE LET out == Arith(e.op, left.t, left.v, right.v)
                         IN  IF e.op = "LessThan"
                             THEN LogOperator([r EXCEPT !.res = out], e.op, left.t, left.v,
                                              right.v, "", OkSome(VInt(IF out.v.v THEN 1 ELSE 0)))
                             ELSE LogOperator([r EXCEPT !.res = out], e.op, left.t,
                                              left.v, right.v, "", out)

\* execute_expression
\* Expression::StructConstructor, from field i on: fields holds the values
\* inserted so far.
StructFields(e, i, fields, m) ==
    IF i > Len(e.fields)
    THEN [m EXCEPT !.res = OkSome(VStruct(e.name, fields)),
                   !.structs = @ \cup {[name |-> e.name, fields |-> DOMAIN fields,
                                        types |-> [n \in DOMAIN fields |-> fields[n].t]]}]
    ELSE LET name == e.fields[i][1]
             r == SelfCall("ExpectValue", <<e.fields[i][2], m>>)
             declared == program.structures[e.name]
         IN  IF Stopped(r) THEN r
             ELSE IF ~HasType(r.res.v) THEN [r EXCEPT !.res = Err("TypeNotFound")]
             ELSE IF name \notin DOMAIN declared
             THEN [r EXCEPT !.res = Err("StructureFieldNotFound")]
             ELSE IF declared[name] # r.res.v.t THEN [r EXCEPT !.res = Err("InvalidType")]
             ELSE SelfCall("StructFields",
                           <<e, i + 1,
                             [n \in DOMAIN fields \cup {name} |->
                                 IF n = name THEN r.res.v ELSE fields[n]], r>>)

ExecuteExpression(e, m) ==
    LET v == Visit(m)
        c == IncrementExpr(v)
        s == Started(c)
    IN  IF Stopped(v) THEN v
        ELSE IF Stopped(c) THEN c
        ELSE CASE e.x = "FunctionCall" -> FunctionCall(e, s)
               [] e.x = "StructConstructor" ->
                    IF e.name \notin DOMAIN program.structures
                    THEN [s EXCEPT !.res = Err("StructureNotFound")]
                    ELSE SelfCall("StructFields", <<e, 1, <<>>, s>>)
               [] e.x = "IsNot" ->
                    LET r == SelfCall("ExpectValue", <<e.e, s>>)
                    IN  IF Stopped(r) THEN r
                        ELSE IF r.res.v.t # "Boolean" THEN [r EXCEPT !.res = Err("InvalidValue")]
                        ELSE [r EXCEPT !.res = OkSome(VBool(~r.res.v.v))]
               [] e.x = "Ternary" ->
                    LET r == SelfCall("ExpectValue", <<e.c, s>>)
                    IN  IF Stopped(r) THEN r
                        ELSE IF r.res.v.t # "Boolean" THEN [r EXCEPT !.res = Err("InvalidValue")]
                        ELSE IF r.res.v.v THEN SelfCall("ExpectValue", <<e.l, r>>)
                        ELSE SelfCall("ExpectValue", <<e.r, r>>)
               [] e.x = "Value" -> [s EXCEPT !.res = OkSome(e.v)]
               [] e.x = "Variable" ->
                    IF HasVariable(s, e.name)
                    THEN [s EXCEPT !.res = OkSome(GetVariable(s, e.name))]
                    ELSE [s EXCEPT !.res = Panicked]
               [] e.x = "Operator" ->
                    IF IsAssignation(e.op) THEN Assignation(e, s) ELSE BinaryOperator(e, s)

\* The block of If / ElseIf / Else / Scope: begin_scope, the statements with
\* `?`, then end_scope on the Some(v) and on the None path.
RunBlock(kind, body, m) ==
    LET d == Len(m.scopes)
        r == SelfCall("ExecuteStatements", <<body, BeginScope(m)>>)
    IN  IF Unwinding(r) THEN r
        ELSE IF Stopped(r) THEN LogBlock(r, kind, d)
        ELSE LET p == EndScope(r)
             IN  IF Stopped(p) THEN LogBlock(p, kind, d)
                 ELSE IF r.res.k = "val" THEN LogBlock(p, kind, d)
                 ELSE LogBlock([p EXCEPT !.res = Fallthrough], kind, d)

\* What the handling of the flags after an iteration must not be: loop_break
\* left set when the loop is left.
AfterIterationKeeping(m) ==
    IF m.loop_break THEN [m EXCEPT !.res = OkNone]
    ELSE [m EXCEPT !.loop_continue = FALSE, !.res = Fallthrough]

\* The flags after one iteration of a loop body: "break" clears loop_break
\* and leaves the loop, otherwise loop_continue is cleared.
AfterIteration(m) ==
    IF m.loop_break THEN [m EXCEPT !.loop_break = FALSE, !.res = OkNone]
    ELSE [m EXCEPT !.loop_continue = FALSE, !.res = Fallthrough]

\* the `loop { ... }` of Statement::For; res = next when the loop is left
ForLoop(st, m) ==
    LET c == SelfCall("ExpectValue", <<st.cond, m>>)
    IN  IF Stopped(c) THEN c
        ELSE IF c.res.v.t # "Boolean" THEN [c EXCEPT !.res = Err("InvalidValue")]
        ELSE IF ~c.res.v.v THEN [c EXCEPT !.res = Fallthrough]
        ELSE
        LET inc == SelfCall("ExecuteExpression", <<st.incr, c>>)
        IN  IF Stopped(inc) THEN inc
            ELSE IF inc.res.k = "val" THEN [inc EXCEPT !.res = Err("ExpectedAssignOperator")]
            ELSE
            LET b == SelfCall("ExecuteStatements", <<st.body, inc>>)
            IN  IF Stopped(b) \/ b.res.k = "val" THEN b
                ELSE LET f == AfterIteration(b)
                     IN  IF f.res.k = "none" THEN [f EXCEPT !.res = Fallthrough]
                         ELSE SelfCall("ForLoop", <<st, f>>)

\* the `for val in values` of Statement::ForEach
ForEachLoop(st, values, i, m) ==
    IF i > Len(values) THEN [m EXCEPT !.res = Fallthrough]
    ELSE
    LET w == SetVariableValue(m, st.name, values[i])
    IN  IF Stopped(w) THEN w
        ELSE
        LET b == SelfCall("ExecuteStatements", <<st.body, w>>)
        IN  IF Stopped(b) \/ b.res.k = "val" THEN b
            ELSE LET f == AfterIteration(b)
                 IN  IF f.res.k = "none" THEN [f EXCEPT !.res = Fallthrough]
                     ELSE SelfCall("ForEachLoop", <<st, values, i + 1, f>>)

\* the `while cond { ... }` of Statement::While
WhileLoop(st, m) ==
    LET c == SelfCall("ExpectValue", <<st.cond, m>>)
    IN  IF Stopped(c) THEN c
        ELSE IF c.res.v.t # "Boolean" THEN [c EXCEPT !.res = Err("InvalidValue")]
        ELSE IF ~c.res.v.v THEN [c EXCEPT !.res = Fallthrough]
        ELSE
        LET b == SelfCall("ExecuteStatements", <<st.body, c>>)
        IN  IF Stopped(b) \/ b.res.k = "val" THEN b
            ELSE LET f == AfterIteration(b)
                 IN  IF f.res.k = "none" THEN [f EXCEPT !.res = Fallthrough]
                     ELSE SelfCall("WhileLoop", <<st, f>>)

\* What follows a loop: an error leaves by `?` (the scope stays), Some(v)
\* and the end of the loop call end_scope.
LoopEnd(kind, d, r) ==
    IF Unwinding(r) THEN r
    ELSE IF Stopped(r) THEN LogBlock(r, kind, d)
    ELSE LET p == EndScope(r)
         IN  IF Stopped(p) THEN LogBlock(p, kind, d)
             ELSE LogBlock([p EXCEPT !.res = r.res], kind, d)

\* one arm of the `match statement` of execute_statements; accept_else is the
\* latch of the enclosing statement sequence, returned in the field accept_else
ExecuteStatement(st, accept_else, m) ==
    LET d == Len(m.scopes)
        r ==
          CASE st.s = "Break" -> [m EXCEPT !.loop_break = TRUE, !.res = Fallthrough]
            [] st.s = "Continue" -> [m EXCEPT !.loop_continue = TRUE, !.res = Fallthrough]
            [] st.s = "Variable" ->
                 LET v == SelfCall("ExpectValue", <<st.value, m>>)
                 IN  IF Stopped(v) THEN v
                     ELSE LET g == RegisterVariable(v, st.name, v.res.v)
                          IN  IF Stopped(g) THEN g ELSE [g EXCEPT !.res = Fallthrough]
            [] st.s \in {"If", "ElseIf"} ->
                 IF st.s = "ElseIf" /\ ~accept_else
                 THEN [m EXCEPT !.res = Fallthrough, !.accept_else = accept_else,
                                !.fired = FALSE, !.cond = "none"]
                 ELSE
                 LET c == SelfCall("ExpectValue", <<st.cond, m>>)
                 IN  IF Stopped(c) THEN c
                     ELSE IF c.res.v.t # "Boolean" THEN [c EXCEPT !.res = Err("InvalidValue")]
                     ELSE IF c.res.v.v
                     THEN [SelfCall("RunBlock", <<st.s, st.body, c>>)
                             EXCEPT !.accept_else = accept_else, !.fired = TRUE, !.cond = "true"]
                     ELSE [c EXCEPT !.res = Fallthrough, !.accept_else = TRUE,
                                    !.fired = FALSE, !.cond = "false"]
            [] st.s = "Else" ->
                 IF accept_else
                 THEN [SelfCall("RunBlock", <<"Else", st.body, m>>)
                         EXCEPT !.fired = TRUE, !.cond = "none"]
                 ELSE [m EXCEPT !.res = Fallthrough, !.fired = FALSE, !.cond = "none"]
            [] st.s = "For" ->
                 LET v == SelfCall("ExpectValue", <<st.value, BeginScope(m)>>)
                 IN  IF Stopped(v) THEN LoopEnd("For", d, v)
                     ELSE LET g == RegisterVariable(v, st.name, v.res.v)
                          IN  IF Stopped(g) THEN LoopEnd("For", d, g)
                              ELSE LoopEnd("For", d, SelfCall("ForLoop", <<st, g>>))
            [] st.s = "ForEach" ->
                 LET v == SelfCall("ExpectValue", <<st.expr, m>>)
                 IN  IF Stopped(v) THEN v
                     ELSE IF v.res.v.t # "Array" THEN [v EXCEPT !.res = Err("InvalidValue")]
                     ELSE IF Len(v.res.v.v) = 0 THEN [v EXCEPT !.res = Fallthrough]
                     ELSE
                     LET values == v.res.v.v
                         b == BeginScope(v)
                     IN  IF ~HasType(values[1])
                         THEN LoopEnd("ForEach", d, [b EXCEPT !.res = Err("TypeNotFound")])
                         ELSE LET g == RegisterVariable(b, st.name, VNull)
                              IN  IF Stopped(g) THEN LoopEnd("ForEach", d, g)
                                  ELSE LoopEnd("ForEach", d, SelfCall("ForEachLoop", <<st, values, 1, g>>))
            [] st.s = "While" -> LoopEnd("While", d, SelfCall("WhileLoop", <<st, BeginScope(m)>>))
            [] st.s = "Return" ->
                 IF Len(st.opt) = 0 THEN [m EXCEPT !.res = OkNone]
                 ELSE SelfCall("ExpectValue", <<st.opt[1], m>>)
            [] st.s = "Scope" -> SelfCall("RunBlock", <<"Scope", st.body, m>>)
            [] st.s = "Expression" ->
                 LET v == SelfCall("ExecuteExpression", <<st.e, m>>)
                 IN  IF Stopped(v) THEN v ELSE [v EXCEPT !.res = Fallthrough]
    IN  IF Stopped(r) THEN r
        ELSE IF st.s \in {"If", "ElseIf"} THEN LogLatch(r, st.s, accept_else)
        ELSE IF st.s = "Else" THEN LogLatch([r EXCEPT !.accept_else = FALSE], st.s, accept_else)
        ELSE [r EXCEPT !.accept_else = FALSE]

\* the `for statement in statements` of execute_statements, from statement i
StatementLoop(stmts, i, accept_else, m) ==
    IF i > Len(stmts) THEN [m EXCEPT !.res = OkNone]
    ELSE
    LET v == Visit(m)
        c == IncrementExpr(v)
    IN  IF Stopped(v) THEN v
        ELSE IF Stopped(c) THEN c
        ELSE IF c.loop_break \/ c.loop_continue THEN [c EXCEPT !.res = OkNone]
        ELSE LET r == SelfCall("ExecuteStatement", <<stmts[i], accept_else, Started(c)>>)
             IN  IF Stopped(r) \/ r.res.k \in {"val", "none"} THEN r
                 ELSE SelfCall("StatementLoop", <<stmts, i + 1, r.accept_else, r>>)

\* execute_statements
ExecuteStatements(stmts, m) == SelfCall("StatementLoop", <<stmts, 1, FALSE, m>>)

\* execute_function, FunctionType::Custom without an instance: a new Context,
\* a scope with the parameters, the statements, end_scope, the result
ExecuteFunction(f, values, m) ==
    IF f.for_type # "None" THEN [m EXCEPT !.res = Err("UnexpectedInstanceType")]
    ELSE
    LET scope == [n \in {f.params[i].name : i \in 1..Len(f.params)} |->
                    values[CHOOSE i \in 1..Len(f.params) : f.params[i].name = n]]
        callee == [m EXCEPT !.scopes = <<scope>>, !.loop_break = FALSE,
                            !.loop_continue = FALSE]
        r == SelfCall("ExecuteStatements", <<f.body, callee>>)
        p == EndScope(r)
        back(x) == [x EXCEPT !.scopes = m.scopes, !.loop_break = m.loop_break,
                             !.loop_continue = m.loop_continue]
    IN  IF Unwinding(r) THEN r
        ELSE IF Stopped(p) /\ ~Stopped(r) THEN back(LogBlock(p, "Function", 0))
        ELSE back(LogBlock([p EXCEPT !.res = r.res], "Function", 0))

\* self.<method>(..): the call of a method of `impl Interpreter` with its
\* arguments.
SelfCall(method, args) ==
    CASE method = "ExecuteExpression" -> ExecuteExpression(args[1], args[2])
      [] method = "ExpectValue" -> ExpectValue(args[1], args[2])
      [] method = "EvalParams" -> EvalParams(args[1], args[2], args[3], args[4])
      [] method = "ExecuteFunction" -> ExecuteFunction(args[1], args[2], args[3])
      [] method = "ExecuteStatements" -> ExecuteStatements(args[1], args[2])
      [] method = "StatementLoop" -> StatementLoop(args[1], args[2], args[3], args[4])
      [] method = "ExecuteStatement" -> ExecuteStatement(args[1], args[2], args[3])
      [] method = "RunBlock" -> RunBlock(args[1], args[2], args[3])
      [] method = "ForLoop" -> ForLoop(args[1], args[2])
      [] method = "ForEachLoop" -> ForEachLoop(args[1], args[2], args[3], args[4])
      [] method = "WhileLoop" -> WhileLoop(args[1], args[2])
      [] method = "StructFields" -> StructFields(args[1], args[2], args[3], args[4])

-----------------------------------------------------------------------------
(* Programs the interpreter is constructed with *)

ETrue == EValue(VBool(TRUE))
EFalse == EValue(VBool(FALSE))
ENum(n) == EValue(VInt(n))
ECall(n) == EFunctionCall(n, <<>>)

\* the statements put inside a block
Leaves ==
    [ Empty    |-> <<>>,
      Return   |-> <<SReturn(ENum(7))>>,
      Fail     |-> <<SExpression(EIsNot(ENum(1)))>>,
      Break    |-> <<SBreak, SExpression(ENum(1))>>,
      Continue |-> <<SContinue, SExpression(ENum(1))>>,
      CallG    |-> <<SExpression(ECall("g"))>>,
      CallC1   |-> <<SExpression(ECall("c1"))>>,
      CallRec  |-> <<SExpression(ECall("rec"))>>,
      Missing  |-> <<SExpression(ECall("nosuch"))>>,
      Undef    |-> <<SExpression(EVariable("undef"))>> ]

LeafNames == DOMAIN Leaves

\* the block constructs around them
Kinds == {"Plain", "If", "Else", "ElseIf", "Scope", "Nested", "While", "WhileTrue",
          "For", "ForEach"}

Less(n, k) == EOperator("LessThan", EVariable(n), ENum(k))
Bump(n) == EOperator("AssignPlus", EVariable(n), ENum(1))

Wrap(kind, inner) ==
    CASE kind = "Plain" -> inner
      [] kind = "If" -> <<SIf(ETrue, inner)>>
      [] kind = "Else" -> <<SIf(EFalse, <<>>), SElse(inner)>>
      [] kind = "ElseIf" -> <<SIf(EFalse, <<>>), SElseIf(ETrue, inner)>>
      [] kind = "Scope" -> <<SScope(inner)>>
      [] kind = "Nested" -> <<SScope(<<SIf(ETrue, inner)>>)>>
      [] kind = "While" ->
            <<SVariable("i", ENum(0)),
              SWhile(Less("i", 1), <<SExpression(Bump("i"))>> \o inner)>>
      [] kind = "WhileTrue" -> <<SWhile(ETrue, inner)>>
      [] kind = "For" -> <<SFor("i", ENum(0), Less("i", 1), Bump("i"), inner)>>
      [] kind = "ForEach" ->
            <<SForEach("x", EValue(VArray(<<VInt(1), VInt(2)>>)), inner)>>

\* entry fn main() { <block>; return 0; }  fn g() { return 1; }
\* fn rec() { rec(); }  fn c1() { c2(); }  fn c2() { c3(); }  fn c3() {}
Functions(kind, leaf) ==
    << Function("main", <<>>, Wrap(kind, Leaves[leaf]) \o <<SReturn(ENum(0))>>, TRUE),
       Function("g", <<>>, <<SReturn(ENum(1))>>, FALSE),
       Function("rec", <<>>, <<SExpression(ECall("rec"))>>, FALSE),
       Function("c1", <<>>, <<SExpression(ECall("c2"))>>, FALSE),
       Function("c2", <<>>, <<SExpression(ECall("c3"))>>, FALSE),
       Function("c3", <<>>, <<>>, FALSE) >>

\* Program { functions }; kind and leaf name the program in the catalogue
Program(kind, leaf) == [kind |-> kind, leaf |-> leaf, functions |-> Functions(kind, leaf)]

EntryNames == {"main", "g", "nosuch"}

\* Programs that apply one arithmetic operator to two numbers of one type
\* (operands chosen at, below and above the ends of u8 and u16):
\*   Binary     entry fn main() { let r = a op b; return 0; }
\*   Compound   entry fn main() { let x = a; x op= b; return 0; }
\*   RoundTrip  entry fn main() { let r = (a + b) - b; return 0; }
Operands ==
    [Byte |-> {0, 1, 5, 16, 100, 200, 255}, Short |-> {0, 1, 256, 300, 65535},
     Int |-> {0, 3, 7}]

Number(t, n) == [t |-> t, v |-> n]

BinaryOperators == {"Plus", "Minus", "Multiply", "Divide", "Modulo"}

ArithKinds == {"Binary", "Compound", "RoundTrip"}

ArithOperators(kind) ==
    CASE kind = "Binary" -> BinaryOperators
      [] kind = "Compound" -> DOMAIN BinaryOf
      [] kind = "RoundTrip" -> {"Plus"}

ArithBody(kind, op, t, a, b) ==
    CASE kind = "Binary" ->
            <<SVariable("r", EOperator(op, EValue(Number(t, a)), EValue(Number(t, b))))>>
      [] kind = "Compound" ->
            <<SVariable("x", EValue(Number(t, a))),
              SExpression(EOperator(op, EVariable("x"), EValue(Number(t, b))))>>
      [] kind = "RoundTrip" ->
            <<SVariable("r", EOperator("Minus",
                  EOperator("Plus", EValue(Number(t, a)), EValue(Number(t, b))),
                  EValue(Number(t, b))))>>

ArithProgram(kind, op, t, a, b) ==
    [kind |-> kind, leaf |-> op, t |-> t, a |-> a, b |-> b,
     functions |->
        <<Function("main", <<>>, ArithBody(kind, op, t, a, b) \o <<SReturn(ENum(0))>>, TRUE)>>]

-----------------------------------------------------------------------------
(* Path, ValueOwnable and InnerValue (types/src/path/mod.rs, values.rs).     *)
(* A Value is [t, n, v]: n the number of a U64, v the elements of an Array;  *)
(* a ValueOwnable is Owned(Box<Value>) or Rc(cell), c being the cell's index *)
(* into `cells`; a Path is Owned(Value), Borrowed (a reference to            *)
(* `constant`) or Wrapper(ValueOwnable).                                     *)

Null == [t |-> "Null", n |-> 0, v |-> <<>>]
U64(n) == [t |-> "U64", n |-> n, v |-> <<>>]
Array(values) == [t |-> "Array", n |-> 0, v |-> values]

OwnableOwned(v) == [o |-> "Owned", v |-> v, c |-> 0]
OwnableRc(c) == [o |-> "Rc", v |-> Null, c |-> c]
NoOwnable == [o |-> "None", v |-> Null, c |-> 0]

PathOwned(v) == [p |-> "Owned", v |-> v, w |-> NoOwnable]
PathBorrowed == [p |-> "Borrowed", v |-> Null, w |-> NoOwnable]
PathWrapper(w) == [p |-> "Wrapper", v |-> Null, w |-> w]

RECURSIVE CloneValue(_)
\* #[derive(Clone)] on Value and ValueOwnable: a Box is copied with its value,
\* an InnerValue clones the Rc, so the copy names the same cell
CloneOwnable(w) ==
    IF w.o = "Owned" THEN OwnableOwned(CloneValue(w.v)) ELSE OwnableRc(w.c)

CloneValue(v) ==
    IF v.t = "Array"
    THEN Array([i \in 1..Len(v.v) |-> CloneOwnable(v.v[i])])
    ELSE v

\* InnerValue::new: a fresh cell holding value
InnerValueNew(heap, value) == Append(heap, value)

\* ValueOwnable::transform on the place holding w; self is what the place holds after
Transform(w, heap) ==
    IF w.o = "Owned"
    THEN LET shared == OwnableRc(Len(heap) + 1)
         IN  [self |-> shared, ret |-> CloneOwnable(shared), heap |-> InnerValueNew(heap, w.v)]
    ELSE [self |-> w, ret |-> OwnableRc(w.c), heap |-> heap]

\* ValueOwnable::handle and Path::as_ref, read
Handle(w, heap) == IF w.o = "Owned" THEN w.v ELSE heap[w.c]

AsRef(path, heap) ==
    CASE path.p = "Owned" -> path.v
      [] path.p = "Borrowed" -> constant
      [] path.p = "Wrapper" -> Handle(path.w, heap)

\* *path.as_mut() = value: the path after the write and the heap after it
AsMutWrite(path, value, heap) ==
    CASE path.p = "Owned" -> [self |-> PathOwned(value), heap |-> heap]
      [] path.p = "Borrowed" -> [self |-> PathOwned(value), heap |-> heap]
      [] path.p = "Wrapper" ->
            IF path.w.o = "Owned"
            THEN [self |-> PathWrapper(OwnableOwned(value)), heap |-> heap]
            ELSE [self |-> path, heap |-> [heap EXCEPT ![path.w.c] = value]]

\* Path::shareable(&mut self)
Shareable(path, heap) ==
    CASE path.p = "Owned" ->
            LET shared == OwnableRc(Len(heap) + 1)
            IN  [self |-> PathWrapper(CloneOwnable(shared)), ret |-> PathWrapper(shared),
                 heap |-> InnerValueNew(heap, path.v)]
      [] path.p = "Borrowed" ->
            LET shared == OwnableRc(Len(heap) + 1)
            IN  [self |-> PathWrapper(CloneOwnable(shared)), ret |-> PathWrapper(shared),
                 heap |-> InnerValueNew(heap, CloneValue(constant))]
      [] path.p = "Wrapper" ->
            [self |-> path, ret |-> PathWrapper(CloneOwnable(path.w)), heap |-> heap]

\* Value::to_sub_vec / as_sub_vec / as_mut_sub_vec
HasSubVec(v) == v.t = "Array"

\* Path::get_sub_variable(self, index), index counted from 0
GetSubVariable(path, index, heap) ==
    LET v == AsRef(path, heap)
    IN  IF ~HasSubVec(v) THEN [ok |-> FALSE, err |-> "SubValue", ret |-> PathOwned(Null), heap |-> heap]
        ELSE IF index >= Len(v.v) THEN [ok |-> FALSE, err |-> "OutOfBounds", ret |-> PathOwned(Null), heap |-> heap]
        ELSE LET at_index == v.v[index + 1]
             IN  CASE path.p = "Owned" ->
                        [ok |-> TRUE, err |-> "", ret |-> PathWrapper(at_index), heap |-> heap]
                   [] path.p = "Borrowed" ->
                        [ok |-> TRUE, err |-> "", ret |-> PathWrapper(CloneOwnable(at_index)), heap |-> heap]
                   [] path.p = "Wrapper" ->
                        LET tr == Transform(at_index, heap)
                        IN  [ok |-> TRUE, err |-> "", ret |-> PathWrapper(tr.ret),
                             heap |-> IF path.w.o = "Rc"
                                      THEN [tr.heap EXCEPT ![path.w.c].v[index + 1] = tr.self]
                                      ELSE tr.heap]

\* ValueOwnable::into_inner and Path::into_owned
IntoInner(w, heap) == IF w.o = "Owned" THEN w.v ELSE heap[w.c]

IntoOwned(path, heap) ==
    CASE path.p = "Owned" -> path.v
      [] path.p = "Borrowed" -> CloneValue(constant)
      [] path.p = "Wrapper" -> IntoInner(path.w, heap)

RECURSIVE Contents(_, _)
\* what a reader walking the value sees: every cell replaced by what it holds
Contents(v, heap) ==
    IF v.t = "Array"
    THEN Array([i \in 1..Len(v.v) |->
                  Contents(Handle(v.v[i], heap), heap)])
    ELSE v

Gone == [t |-> "Gone", n |-> 0, v |-> <<>>]

RECURSIVE ContentsAt(_, _)
\* the part of contents c reached by the indexes `at`, Gone when there is none
ContentsAt(c, at) ==
    IF at = <<>> THEN c
    ELSE IF c.t # "Array" \/ at[1] >= Len(c.v) THEN Gone
    ELSE ContentsAt(c.v[at[1] + 1], Tail(at))

-----------------------------------------------------------------------------
(* Type (types/src/types/mod.rs): a type is [k, inner], inner being <<>> or  *)
(* the one boxed type of Array, Optional and Range.                          *)

Ty(k) == [k |-> k, inner |-> <<>>]
TyArray(t) == [k |-> "Array", inner |-> <<t>>]
TyOptional(t) == [k |-> "Optional", inner |-> <<t>>]
TyRange(t) == [k |-> "Range", inner |-> <<t>>]

Primitives == {"U8", "U16", "U32", "U64", "U128", "U256", "Bool", "String"}
AtomKinds == {"Any", "T", "Struct"} \cup Primitives

NoneByte == 0 - 1
NoType == Ty("None")

\* Type::primitive_type_from_byte(byte: u8) -> Option<Type>
PrimitiveTypeFromByte(byte) ==
    CASE byte = 0 -> Ty("U8")
      [] byte = 1 -> Ty("U16")
      [] byte = 2 -> Ty("U32")
      [] byte = 3 -> Ty("U64")
      [] byte = 4 -> Ty("U128")
      [] byte = 5 -> Ty("U256")
      [] byte = 6 -> Ty("Bool")
      [] byte = 7 -> Ty("String")
      [] OTHER -> NoType

\* primitive_byte with the bytes of Bool and String exchanged: what
\* primitive_byte must not be
PrimitiveByteExchanged(t) ==
    CASE t.k = "U8" -> 0
      [] t.k = "U16" -> 1
      [] t.k = "U32" -> 2
      [] t.k = "U64" -> 3
      [] t.k = "U128" -> 4
      [] t.k = "U256" -> 5
      [] t.k = "Bool" -> 7
      [] t.k = "String" -> 6
      [] OTHER -> NoneByte

\* Type::primitive_byte(&self) -> Option<u8>
PrimitiveByte(t) ==
    CASE t.k = "U8" -> 0
      [] t.k = "U16" -> 1
      [] t.k = "U32" -> 2
      [] t.k = "U64" -> 3
      [] t.k = "U128" -> 4
      [] t.k = "U256" -> 5
      [] t.k = "Bool" -> 6
      [] t.k = "String" -> 7
      [] OTHER -> NoneByte

RECURSIVE IsCompatibleWith(_, _)
\* is_compatible_with whose last arm forgets the equality of the two types:
\* what is_compatible_with must not be
IsCompatibleWithNoEquality(self, other) ==
    CASE other.k = "Range" ->
            IF self.k = "Range"
            THEN IsCompatibleWith(other.inner[1], self.inner[1])
            ELSE FALSE
      [] other.k \in {"Any", "T"} -> TRUE
      [] other.k = "Array" ->
            IF self.k = "Array"
            THEN IsCompatibleWith(self.inner[1], other.inner[1])
            ELSE self = other \/ IsCompatibleWith(self, other.inner[1])
      [] other.k = "Optional" ->
            IF self.k = "Optional"
            THEN IsCompatibleWith(self.inner[1], other.inner[1])
            ELSE self = other \/ IsCompatibleWith(self, other.inner[1])
      [] OTHER -> self = Ty("T") \/ self = Ty("Any")

\* Type::is_compatible_with(&self, other)
IsCompatibleWith(self, other) ==
    CASE other.k = "Range" ->
            IF self.k = "Range"
            THEN IsCompatibleWith(other.inner[1], self.inner[1])
            ELSE FALSE
      [] other.k \in {"Any", "T"} -> TRUE
      [] other.k = "Array" ->
            IF self.k = "Array"
            THEN IsCompatibleWith(self.inner[1], other.inner[1])
            ELSE self = other \/ IsCompatibleWith(self, other.inner[1])
      [] other.k = "Optional" ->
            IF self.k = "Optional"
            THEN IsCompatibleWith(self.inner[1], other.inner[1])
            ELSE self = other \/ IsCompatibleWith(self, other.inner[1])
      [] OTHER -> other = self \/ self = Ty("T") \/ self = Ty("Any")

\* the six numeric widths
NumericKinds == {"U8", "U16", "U32", "U64", "U128", "U256"}

\* is_castable_to: a numeric type to every other numeric type and to String,
\* Bool to every numeric type and to String, nothing else
IsCastableTo(self, other) ==
    CASE self.k \in NumericKinds ->
            other.k \in (NumericKinds \ {self.k}) \cup {"String"}
      [] self.k = "Bool" -> other.k \in NumericKinds \cup {"String"}
      [] OTHER -> FALSE

-----------------------------------------------------------------------------
(* Value (types/src/values.rs) with its numbers at their real widths: a      *)
(* value is [t, n, v, ty]; n is the number of U8 .. U256 in base 256, least  *)
(* significant digit first and without leading zero digits (for a Boolean    *)
(* the number of `b as u8`, for a String its bytes); v holds the elements of *)
(* an Array, the fields of a Struct, the content of an Optional (none or     *)
(* one) and the two ends of a Range; ty holds the Type of a Range.           *)

ValueNull == [t |-> "Null", n |-> <<>>, v |-> <<>>, ty |-> <<>>]
ValueNumber(kind, n) == [t |-> kind, n |-> n, v |-> <<>>, ty |-> <<>>]
ValueString(bytes) == [t |-> "String", n |-> bytes, v |-> <<>>, ty |-> <<>>]
ValueBoolean(b) == [t |-> "Boolean", n |-> IF b THEN <<1>> ELSE <<>>, v |-> <<>>, ty |-> <<>>]
ValueStruct(fields) == [t |-> "Struct", n |-> <<>>, v |-> fields, ty |-> <<>>]
ValueArray(values) == [t |-> "Array", n |-> <<>>, v |-> values, ty |-> <<>>]
ValueOptional(opt) == [t |-> "Optional", n |-> <<>>, v |-> opt, ty |-> <<>>]
ValueRange(start, end, type) == [t |-> "Range", n |-> <<>>, v |-> <<start, end>>, ty |-> <<type>>]

\* the size in bytes of u8, u16, u32, u64, u128 and U256
SizeOf == [U8 |-> 1, U16 |-> 2, U32 |-> 4, U64 |-> 8, U128 |-> 16, U256 |-> 32]

\* Ok(v) and Err(e) of Result<_, ValueError>
ValueOk(v) == [ok |-> TRUE, err |-> "", value |-> v]
ValueErr(e) == [ok |-> FALSE, err |-> e, value |-> ValueNull]

\* what a checked cast must not be: the `as` conversion of cast_to_uN, which
\* keeps the low bytes of a number that does not fit
CheckedCastWrapping(self, type) ==
    IF self.t \in NumericKinds \cup {"Boolean"}
    THEN LET low == SubSeq(self.n, 1, IF Len(self.n) < SizeOf[type] THEN Len(self.n) ELSE SizeOf[type])
             top == {i \in 1..Len(low) : low[i] # 0}
         IN  ValueOk(ValueNumber(type, SubSeq(low, 1, IF top = {} THEN 0 ELSE CHOOSE i \in top : \A j \in top : j <= i)))
    ELSE ValueErr("InvalidCastType")

\* checked_cast!(self, type) mapped into the Value of the target type
\* (checked_cast_to_u8 .. checked_cast_to_u256): try_into of a number or of
\* a bool, CastError when it has no value in the target, InvalidCastType
\* for every other value
CheckedCast(self, type) ==
    IF self.t \in NumericKinds \cup {"Boolean"}
    THEN IF Len(self.n) <= SizeOf[type]
         THEN ValueOk(ValueNumber(type, self.n))
         ELSE ValueErr("CastError")
    ELSE ValueErr("InvalidCastType")

\* is_castable_to_no_loss: a numeric type to each wider numeric type
IsCastableToNoLoss(self, other) ==
    CASE self.k = "U8" -> other.k \in {"U16", "U32", "U64", "U128", "U256"}
      [] self.k = "U16" -> other.k \in {"U32", "U64", "U128", "U256"}
      [] self.k = "U32" -> other.k \in {"U64", "U128", "U256"}
      [] self.k = "U64" -> other.k \in {"U128", "U256"}
      [] self.k = "U128" -> other.k \in {"U256"}
      [] OTHER -> FALSE

\* the typed accessors of a Value
Accessors ==
    {"as_u8", "as_u16", "as_u32", "as_u64", "as_u128", "as_u256", "as_string",
     "as_bool", "as_map", "as_vec", "as_optional", "as_range"}

\* accessor(self) is Ok: each accessor matches one variant, as_optional
\* matches Null as well
Accepts(accessor, self) ==
    CASE accessor = "as_u8" -> self.t = "U8"
      [] accessor = "as_u16" -> self.t = "U16"
      [] accessor = "as_u32" -> self.t = "U32"
      [] accessor = "as_u64" -> self.t = "U64"
      [] accessor = "as_u128" -> self.t = "U128"
      [] accessor = "as_u256" -> self.t = "U256"
      [] accessor = "as_string" -> self.t = "String"
      [] accessor = "as_bool" -> self.t = "Boolean"
      [] accessor = "as_map" -> self.t = "Struct"
      [] accessor = "as_vec" -> self.t = "Array"
      [] accessor = "as_optional" -> self.t \in {"Null", "Optional"}
      [] accessor = "as_range" -> self.t = "Range"

\* Ok(type) and Err(UnknownType) of get_type
TypeOk(type) == [ok |-> TRUE, type |-> type]
UnknownType == [ok |-> FALSE, type |-> NoType]

RECURSIVE GetType(_)

\* what get_type must not be: an empty array typed as an array of Any
GetTypeEmptyArrayOfAny(self) ==
    IF self.t = "Array" /\ Len(self.v) = 0 THEN TypeOk(TyArray(Ty("Any")))
    ELSE IF self.t \in {"Array", "Optional"} /\ Len(self.v) > 0
    THEN LET inner == GetType(self.v[1])
         IN  IF ~inner.ok THEN UnknownType
             ELSE TypeOk(IF self.t = "Array" THEN TyArray(inner.type) ELSE TyOptional(inner.type))
    ELSE IF self.t \in {"Null", "Optional"} THEN UnknownType
    ELSE IF self.t = "Range" THEN TypeOk(TyRange(self.ty[1]))
    ELSE IF self.t = "Boolean" THEN TypeOk(Ty("Bool"))
    ELSE TypeOk(Ty(self.t))

\* get_type: the type of the variant; of an Array the type of its first
\* element, of an Optional the type of its content, `?` on both
GetType(self) ==
    CASE self.t = "Null" -> UnknownType
      [] self.t \in NumericKinds -> TypeOk(Ty(self.t))
      [] self.t = "String" -> TypeOk(Ty("String"))
      [] self.t = "Boolean" -> TypeOk(Ty("Bool"))
      [] self.t = "Struct" -> TypeOk(Ty("Struct"))
      [] self.t = "Array" ->
            IF Len(self.v) = 0 THEN UnknownType
            ELSE LET inner == GetType(self.v[1])
                 IN  IF inner.ok THEN TypeOk(TyArray(inner.type)) ELSE UnknownType
      [] self.t = "Optional" ->
            IF Len(self.v) = 0 THEN UnknownType
            ELSE LET inner == GetType(self.v[1])
                 IN  IF inner.ok THEN TypeOk(TyOptional(inner.type)) ELSE UnknownType
      [] self.t = "Range" -> TypeOk(TyRange(self.ty[1]))

-----------------------------------------------------------------------------
(* OpCode (bytecode/src/opcode.rs) *)

\* enum OpCode
OpCodes ==
    {"Constant", "MemoryLoad", "MemorySet", "SubLoad", "Pop", "Copy",
     "Copy2", "Swap", "Swap2", "Jump", "JumpIfFalse", "IterableLength",
     "IteratorBegin", "IteratorNext", "IteratorEnd", "Return", "ArrayCall",
     "Cast", "InvokeChunk", "SysCall", "NewArray", "NewStruct", "Add", "Sub",
     "Mul", "Div", "Mod", "Pow", "And", "Or", "Xor", "Shl", "Shr", "Eq",
     "Neg", "Gt", "Lt", "Gte", "Lte", "Assign", "AssignAdd", "AssignSub",
     "AssignMul", "AssignDiv", "AssignMod", "AssignPow", "AssignAnd",
     "AssignOr", "AssignXor", "AssignShl", "AssignShr", "Inc", "Dec",
     "NewRange"}

NoOpCode == "None"

\* OpCode::as_byte(&self) -> u8
AsByte(op) ==
    CASE op = "Constant" -> 0
      [] op = "MemoryLoad" -> 1
      [] op = "MemorySet" -> 2
      [] op = "SubLoad" -> 3
      [] op = "Pop" -> 4
      [] op = "Copy" -> 5
      [] op = "Copy2" -> 6
      [] op = "Swap" -> 7
      [] op = "Swap2" -> 8
      [] op = "Jump" -> 9
      [] op = "JumpIfFalse" -> 10
      [] op = "IterableLength" -> 11
      [] op = "IteratorBegin" -> 12
      [] op = "IteratorNext" -> 13
      [] op = "IteratorEnd" -> 14
      [] op = "Return" -> 15
      [] op = "ArrayCall" -> 16
      [] op = "Cast" -> 17
      [] op = "InvokeChunk" -> 18
      [] op = "SysCall" -> 19
      [] op = "NewArray" -> 20
      [] op = "NewStruct" -> 21
      [] op = "Add" -> 22
      [] op = "Sub" -> 23
      [] op = "Mul" -> 24
      [] op = "Div" -> 25
      [] op = "Mod" -> 26
      [] op = "Pow" -> 27
      [] op = "And" -> 28
      [] op = "Or" -> 29
      [] op = "Xor" -> 30
      [] op = "Shl" -> 31
      [] op = "Shr" -> 32
      [] op = "Eq" -> 33
      [] op = "Neg" -> 34
      [] op = "Gt" -> 35
      [] op = "Lt" -> 36
      [] op = "Gte" -> 37
      [] op = "Lte" -> 38
      [] op = "Assign" -> 39
      [] op = "AssignAdd" -> 40
      [] op = "AssignSub" -> 41
      [] op = "AssignMul" -> 42
      [] op = "AssignDiv" -> 43
      [] op = "AssignMod" -> 44
      [] op = "AssignPow" -> 45
      [] op = "AssignAnd" -> 46
      [] op = "AssignOr" -> 47
      [] op = "AssignXor" -> 48
      [] op = "AssignShl" -> 49
      [] op = "AssignShr" -> 50
      [] op = "Inc" -> 51
      [] op = "Dec" -> 52
      [] op = "NewRange" -> 53

\* from_byte with the rows of Inc and Dec exchanged: what from_byte must not be
FromByteExchanged(byte) ==
    IF byte = 51 THEN "Dec"
    ELSE IF byte = 52 THEN "Inc"
    ELSE IF \E op \in OpCodes : AsByte(op) = byte
         THEN CHOOSE op \in OpCodes : AsByte(op) = byte
         ELSE NoOpCode

\* OpCode::from_byte(byte: u8) -> Option<OpCode>
FromByte(byte) ==
    CASE byte = 0 -> "Constant"
      [] byte = 1 -> "MemoryLoad"
      [] byte = 2 -> "MemorySet"
      [] byte = 3 -> "SubLoad"
      [] byte = 4 -> "Pop"
      [] byte = 5 -> "Copy"
      [] byte = 6 -> "Copy2"
      [] byte = 7 -> "Swap"
      [] byte = 8 -> "Swap2"
      [] byte = 9 -> "Jump"
      [] byte = 10 -> "JumpIfFalse"
      [] byte = 11 -> "IterableLength"
      [] byte = 12 -> "IteratorBegin"
      [] byte = 13 -> "IteratorNext"
      [] byte = 14 -> "IteratorEnd"
      [] byte = 15 -> "Return"
      [] byte = 16 -> "ArrayCall"
      [] byte = 17 -> "Cast"
      [] byte = 18 -> "InvokeChunk"
      [] byte = 19 -> "SysCall"
      [] byte = 20 -> "NewArray"
      [] byte = 21 -> "NewStruct"
      [] byte = 22 -> "Add"
      [] byte = 23 -> "Sub"
      [] byte = 24 -> "Mul"
      [] byte = 25 -> "Div"
      [] byte = 26 -> "Mod"
      [] byte = 27 -> "Pow"
      [] byte = 28 -> "And"
      [] byte = 29 -> "Or"
      [] byte = 30 -> "Xor"
      [] byte = 31 -> "Shl"
      [] byte = 32 -> "Shr"
      [] byte = 33 -> "Eq"
      [] byte = 34 -> "Neg"
      [] byte = 35 -> "Gt"
      [] byte = 36 -> "Lt"
      [] byte = 37 -> "Gte"
      [] byte = 38 -> "Lte"
      [] byte = 39 -> "Assign"
      [] byte = 40 -> "AssignAdd"
      [] byte = 41 -> "AssignSub"
      [] byte = 42 -> "AssignMul"
      [] byte = 43 -> "AssignDiv"
      [] byte = 44 -> "AssignMod"
      [] byte = 45 -> "AssignPow"
      [] byte = 46 -> "AssignAnd"
      [] byte = 47 -> "AssignOr"
      [] byte = 48 -> "AssignXor"
      [] byte = 49 -> "AssignShl"
      [] byte = 50 -> "AssignShr"
      [] byte = 51 -> "Inc"
      [] byte = 52 -> "Dec"
      [] byte = 53 -> "NewRange"
      [] OTHER -> NoOpCode

-----------------------------------------------------------------------------
(* Idle values: what the variables of a part hold while another part runs *)

Pending == [kind |-> "pending"]

PathIdle ==
    /\ cells = <<>>
    /\ constant = Null
    /\ snapshot = Null
    /\ binding = PathOwned(Null)
    /\ handles = <<>>
    /\ path_ops = 0

TypeIdle == ty_in = Pending /\ ty_out = Pending

CodeIdle == code_in = Pending /\ code_out = Pending

OptionalIdle == receiver = Null /\ receiver_last = Pending

ViewIdle == aliases = <<>> /\ flags = <<>> /\ views = <<>> /\ view_last = Pending

ManagerIdle == manager = [types |-> <<>>, mapper |-> [ids |-> <<>>, next |-> 0]] /\ manager_last = Pending

StackIdle == stack = [scopes |-> <<>>, res |-> OkNone] /\ stack_last = Pending

-----------------------------------------------------------------------------
(* The interpreter as a state machine *)

NoLimit == [inv |-> 0 - 1, exe |-> 0 - 1]

\* the evaluator's record at the start of a run
Machine ==
    [ count_expr |-> count_expr, recursive |-> recursive,
      scopes |-> <<>>, loop_break |-> FALSE, loop_continue |-> FALSE,
      accept_else |-> FALSE, res |-> OkNone,
      invocations |-> 0, executed |-> 0, blocks |-> {}, ops |-> {},
      structs |-> {}, latches |-> {}, fired |-> FALSE, cond |-> "none", nest |-> 0,
      rejected |-> {}, admitted |-> {}, limit_at |-> NoLimit ]

\* Value::to_int of the returned value: an integer of any width as the
\* widest integer, no other value
ToInt(v) == IF IsNumber(v) THEN OkSome(VInt(v.v)) ELSE Err("InvalidValue")

\* the end of call_entry_function: Some(val) => Ok(val.to_int()?),
\* None => Err(NoExitCode)
ExitCode(r) ==
    IF Stopped(r) THEN r
    ELSE IF r.res.k = "none" THEN [r EXCEPT !.res = Err("NoExitCode")]
    ELSE [r EXCEPT !.res = ToInt(r.res.v)]

\* what call_entry_function must not be: one that runs the function and
\* looks at is_entry afterwards
CallEntryFunctionResultUnchecked(name) ==
    LET fi == GetFunction(name, <<>>)
    IN  IF fi = 0 THEN [Machine EXCEPT !.res = Err("FunctionNotFound")]
        ELSE IF ~program.functions[fi].is_entry
        THEN [SelfCall("ExecuteFunction", <<program.functions[fi], <<>>, Machine>>)
                EXCEPT !.res = Err("FunctionEntry")]
        ELSE ExitCode(SelfCall("ExecuteFunction", <<program.functions[fi], <<>>, Machine>>))

\* call_entry_function(name, []): resolve, require is_entry, execute, to_int
CallEntryFunctionResult(name) ==
    LET fi == GetFunction(name, <<>>)
    IN  IF fi = 0 THEN [Machine EXCEPT !.res = Err("FunctionNotFound")]
        ELSE IF ~program.functions[fi].is_entry THEN [Machine EXCEPT !.res = Err("FunctionEntry")]
        ELSE ExitCode(SelfCall("ExecuteFunction", <<program.functions[fi], <<>>, Machine>>))

Outcome(res) == IF res.k = "err" THEN res.v.v ELSE res.k

Observation(name, r) ==
    [ name |-> name, outcome |-> Outcome(r.res),
      value |-> IF r.res.k = "val" THEN r.res.v.v ELSE 0,
      count_before |-> count_expr, count_after |-> r.count_expr,
      recursive_before |-> recursive, recursive_after |-> r.recursive,
      invocations |-> r.invocations, executed |-> r.executed, blocks |-> r.blocks,
      ops |-> r.ops, structs |-> r.structs, latches |-> r.latches,
      rejected |-> r.rejected, admitted |-> r.admitted, limit_at |-> r.limit_at ]

NoCall ==
    [ name |-> "", outcome |-> "idle", value |-> 0,
      count_before |-> 0, count_after |-> 0, recursive_before |-> 0, recursive_after |-> 0,
      invocations |-> 0, executed |-> 0, blocks |-> {}, ops |-> {}, structs |-> {},
      latches |-> {}, rejected |-> {}, admitted |-> {}, limit_at |-> NoLimit ]

\* Interpreter::new(program, max_expr, max_recursive, env), no constants
Init ==
    /\ \E kind \in Kinds, leaf \in LeafNames : program = Program(kind, leaf)
    /\ max_expr \in 0..MaxExprBound
    /\ max_recursive \in 0..MaxRecBound
    /\ count_expr = 0
    /\ recursive = 0
    /\ last = NoCall
    /\ ncalls = 0
    /\ PathIdle /\ TypeIdle /\ CodeIdle /\ StackIdle /\ ManagerIdle /\ ViewIdle /\ OptionalIdle

Usable == ncalls < MaxCalls /\ last.outcome \notin {"panic", "cutoff"}

CallEntryFunction(name) ==
    /\ Usable
    /\ last' = Observation(name, CallEntryFunctionResult(name))
    /\ count_expr' = last'.count_after
    /\ recursive' = last'.recursive_after
    /\ ncalls' = ncalls + 1
    /\ UNCHANGED <<program, max_expr, max_recursive, pathVars, typeVars, codeVars, stackVars, managerVars, viewVars, optVars>>

\* add_count_expr(n)
AddCountExpr(n) ==
    /\ Usable
    /\ count_expr' = count_expr + n
    /\ ncalls' = ncalls + 1
    /\ UNCHANGED <<program, max_expr, max_recursive, recursive, last>>
    /\ UNCHANGED <<pathVars, typeVars, codeVars, stackVars, managerVars, viewVars, optVars>>

Next ==
    \/ \E name \in EntryNames : CallEntryFunction(name)
    \/ \E n \in 1..MaxPrecharge : AddCountExpr(n)

vars == <<interpVars, pathVars, typeVars, codeVars, stackVars, managerVars, viewVars, optVars>>

Spec == Init /\ [][Next]_vars

\* Programs that construct one struct:
\*   struct S { a: Int, b: Int }
\*   entry fn main() { let s = <name> { <fields> }; return 0; }
Structures == [S |-> [a |-> "Int", b |-> "Int"]]

StructNames == {"S", "U"}

FieldPool == {<<"a", ENum(1)>>, <<"a", ETrue>>, <<"b", ENum(2)>>, <<"c", ENum(3)>>}

MaxFields == 3

\* the field lists: up to MaxFields fields, no name twice
FieldLists ==
    {fs \in UNION {[1..k -> FieldPool] : k \in 0..MaxFields} :
        \A i \in DOMAIN fs, j \in DOMAIN fs : i # j => fs[i][1] # fs[j][1]}

StructProgram(name, fields) ==
    [kind |-> "Struct", leaf |-> name, fields |-> fields, structures |-> Structures,
     functions |->
        <<Function("main", <<>>,
                   <<SVariable("s", EStructConstructor(name, fields)), SReturn(ENum(0))>>,
                   TRUE)>>]

\* The interpreter over the struct programs
StructInit ==
    /\ \E name \in StructNames, fields \in FieldLists : program = StructProgram(name, fields)
    /\ max_expr \in {0, MaxExprBound}
    /\ max_recursive \in {0, MaxRecBound}
    /\ count_expr = 0
    /\ recursive = 0
    /\ last = NoCall
    /\ ncalls = 0
    /\ PathIdle /\ TypeIdle /\ CodeIdle /\ StackIdle /\ ManagerIdle /\ ViewIdle /\ OptionalIdle

SpecStruct == StructInit /\ [][Next]_vars

\* Programs whose function main is or is not an entry and returns a number
\* of some width, returns without a value, or ends without returning:
\*   [entry] fn main() { <ending> }   fn g() { return 1; }
Endings ==
    [Byte |-> <<SReturn(EValue(VByte(200)))>>,
     Short |-> <<SReturn(EValue(VShort(65535)))>>,
     Int |-> <<SReturn(ENum(7))>>,
     Computed |-> <<SVariable("x", EValue(VByte(100))),
                    SReturn(EOperator("Plus", EVariable("x"), EValue(VByte(55))))>>,
     Nothing |-> <<SReturnNone>>,
     End |-> <<SVariable("x", ENum(1))>>]

\* the number a program with this ending returns (none for Nothing and End)
Returned ==
    [Byte |-> 200, Short |-> 65535, Int |-> 7, Computed |-> 155, Nothing |-> 0 - 1,
     End |-> 0 - 1]

EntryProgram(is_entry, ending) ==
    [kind |-> "Entry", leaf |-> ending,
     functions |->
        <<Function("main", <<>>, Endings[ending], is_entry),
          Function("g", <<>>, <<SReturn(ENum(1))>>, FALSE)>>]

\* The interpreter over the entry programs
EntryInit ==
    /\ \E is_entry \in BOOLEAN, ending \in DOMAIN Endings :
         program = EntryProgram(is_entry, ending)
    /\ max_expr \in {0, MaxExprBound}
    /\ max_recursive \in {0, MaxRecBound}
    /\ count_expr = 0
    /\ recursive = 0
    /\ last = NoCall
    /\ ncalls = 0
    /\ PathIdle /\ TypeIdle /\ CodeIdle /\ StackIdle /\ ManagerIdle /\ ViewIdle /\ OptionalIdle

SpecEntry == EntryInit /\ [][Next]_vars

\* Programs with one short-circuit expression whose second operand (for the
\* ternary: the branch not chosen by c) has an effect or fails:
\*   entry fn main() { let x = 0; let r = <c && side | c || side | c ? .. : ..>; return 0; }
\*   fn h() { return true; }
Sides ==
    [True |-> ETrue,
     Assign |-> EOperator("AssignPlus", EVariable("x"), ENum(1)),
     Call |-> ECall("h"),
     Fail |-> EIsNot(ENum(1)),
     Undef |-> EVariable("undef")]

ShortKinds == {"And", "Or", "Ternary"}

ShortExpression(kind, c, side) ==
    LET cond == IF c THEN ETrue ELSE EFalse
    IN  CASE kind = "Ternary" ->
                IF c THEN ETernary(cond, ETrue, Sides[side]) ELSE ETernary(cond, Sides[side], ETrue)
          [] OTHER -> EOperator(kind, cond, Sides[side])

ShortProgram(kind, c, side) ==
    [kind |-> kind, leaf |-> side, c |-> c,
     functions |->
        <<Function("main", <<>>,
                   <<SVariable("x", ENum(0)), SVariable("r", ShortExpression(kind, c, side)),
                     SReturn(ENum(0))>>, TRUE),
          Function("h", <<>>, <<SReturn(ETrue)>>, FALSE)>>]

\* The interpreter over the short-circuit programs
ShortInit ==
    /\ \E kind \in ShortKinds, c \in BOOLEAN, side \in DOMAIN Sides :
         program = ShortProgram(kind, c, side)
    /\ max_expr \in {0, MaxExprBound}
    /\ max_recursive \in {0, MaxRecBound}
    /\ count_expr = 0
    /\ recursive = 0
    /\ last = NoCall
    /\ ncalls = 0
    /\ PathIdle /\ TypeIdle /\ CodeIdle /\ StackIdle /\ ManagerIdle /\ ViewIdle /\ OptionalIdle

SpecShort == ShortInit /\ [][Next]_vars

\* Programs made of if / else if / else statements, each body adding its own
\* power of two to x, so that the value returned names the bodies that ran:
\*   entry fn main() { let x = 0; if c {x += 1} else if c {x += 2} else {x += 4} return x; }
\* An ElseIf or Else follows an If or an ElseIf, as the parser builds them.
MaxChain == 3

ChainItems == {"IfT", "IfF", "ElseIfT", "ElseIfF", "Else"}

IsIf(it) == it \in {"IfT", "IfF"}

IsElseIf(it) == it \in {"ElseIfT", "ElseIfF"}

Chains ==
    {c \in UNION {[1..n -> ChainItems] : n \in 1..MaxChain} :
        /\ IsIf(c[1])
        /\ \A p \in 2..Len(c) : ~IsIf(c[p]) => (IsIf(c[p - 1]) \/ IsElseIf(c[p - 1]))}

Mark(p) == 2 ^ (p - 1)

ChainStatement(it, p) ==
    LET body == <<SExpression(EOperator("AssignPlus", EVariable("x"), ENum(Mark(p))))>>
    IN  CASE it = "IfT" -> SIf(ETrue, body)
          [] it = "IfF" -> SIf(EFalse, body)
          [] it = "ElseIfT" -> SElseIf(ETrue, body)
          [] it = "ElseIfF" -> SElseIf(EFalse, body)
          [] OTHER -> SElse(body)

ChainProgram(c) ==
    [kind |-> "Chain", leaf |-> "Chain", items |-> c,
     functions |->
        <<Function("main", <<>>,
                   <<SVariable("x", ENum(0))>> \o [p \in 1..Len(c) |-> ChainStatement(c[p], p)]
                       \o <<SReturn(EVariable("x"))>>, TRUE)>>]

\* The interpreter over the else-chain programs
ChainInit ==
    /\ \E c \in Chains : program = ChainProgram(c)
    /\ max_expr \in {0, MaxExprBound}
    /\ max_recursive \in {0, MaxRecBound}
    /\ count_expr = 0
    /\ recursive = 0
    /\ last = NoCall
    /\ ncalls = 0
    /\ PathIdle /\ TypeIdle /\ CodeIdle /\ StackIdle /\ ManagerIdle /\ ViewIdle /\ OptionalIdle

SpecChain == ChainInit /\ [][Next]_vars

\* Programs with a Break or Continue in a loop, alone or inside another loop:
\*   entry fn main() { <loop> return 0; }
\*   entry fn main() { foreach a in [1] { <loop> a += 16; } return 0; }
\* <loop> being one of
\*   foreach i in [10, 20] { i += 1; <block> i += 4; }
\*   let i = 0; while i < 1 { i += 1; <block> i += 4; }
\*   for i = 0; i < 1; i += 1 { <block> i += 4; }
\* and <block> the statement break or continue, or nothing, inside no block,
\* an If, a Scope, or an If inside a Scope.
LoopLeaves == [Empty |-> <<>>, Break |-> <<SBreak>>, Continue |-> <<SContinue>>]

LoopTypes == {"ForEach", "While", "For"}

LoopWraps == {"Plain", "If", "Scope", "Nested"}

Add(n, k) == SExpression(EOperator("AssignPlus", EVariable(n), ENum(k)))

InnerLoop(type, wrap, leaf) ==
    LET body == Wrap(wrap, LoopLeaves[leaf]) \o <<Add("i", 4)>>
    IN  CASE type = "ForEach" ->
                <<SForEach("i", EValue(VArray(<<VInt(10), VInt(20)>>)), <<Add("i", 1)>> \o body)>>
          [] type = "While" ->
                <<SVariable("i", ENum(0)), SWhile(Less("i", 1), <<Add("i", 1)>> \o body)>>
          [] OTHER -> <<SFor("i", ENum(0), Less("i", 1), Bump("i"), body)>>

LoopProgram(type, two, wrap, leaf) ==
    [kind |-> wrap, leaf |-> leaf, type |-> type, two |-> two,
     functions |->
        <<Function("main", <<>>,
                   (IF two
                    THEN <<SForEach("a", EValue(VArray(<<VInt(1)>>)),
                                    InnerLoop(type, wrap, leaf) \o <<Add("a", 16)>>)>>
                    ELSE InnerLoop(type, wrap, leaf)) \o <<SReturn(ENum(0))>>, TRUE)>>]

\* The interpreter over the loop programs
LoopInit ==
    /\ \E type \in LoopTypes, two \in BOOLEAN, wrap \in LoopWraps, leaf \in DOMAIN LoopLeaves :
         program = LoopProgram(type, two, wrap, leaf)
    /\ max_expr \in {0, MaxExprBound}
    /\ max_recursive \in {0, MaxRecBound}
    /\ count_expr = 0
    /\ recursive = 0
    /\ last = NoCall
    /\ ncalls = 0
    /\ PathIdle /\ TypeIdle /\ CodeIdle /\ StackIdle /\ ManagerIdle /\ ViewIdle /\ OptionalIdle

SpecLoop == LoopInit /\ [][Next]_vars

\* The interpreter over the arithmetic programs
ArithInit ==
    /\ \E kind \in ArithKinds, t \in DOMAIN Operands :
         \E op \in ArithOperators(kind), a \in Operands[t], b \in Operands[t] :
            program = ArithProgram(kind, op, t, a, b)
    /\ max_expr \in {0, MaxExprBound}
    /\ max_recursive \in {0, MaxRecBound}
    /\ count_expr = 0
    /\ recursive = 0
    /\ last = NoCall
    /\ ncalls = 0
    /\ PathIdle /\ TypeIdle /\ CodeIdle /\ StackIdle /\ ManagerIdle /\ ViewIdle /\ OptionalIdle

SpecArith == ArithInit /\ [][Next]_vars

-----------------------------------------------------------------------------
(* Properties of the interpreter, checked under Spec *)

Max(a, b) == IF a >= b THEN a ELSE b

\* C1: every block (If, ElseIf, Else, For, ForEach, While, Scope and function
\* bodies) leaves the context's scope depth as it found it, whether the block
\* completes normally, returns a value or fails with an error.
C1_ScopeDiscipline ==
    \A b \in last.blocks : b.after = b.before

\* C2: the evaluator invocations of a run equal the growth of count_expr over
\* the run, and once increment_expr has failed the run ends in LimitReached
\* with no node entered or executed after the failing increment.
C2_StepMeter ==
    /\ last.count_after - last.count_before = last.invocations
    /\ last.limit_at # NoLimit =>
          /\ last.outcome = "LimitReached"
          /\ last.invocations = last.limit_at.inv
          /\ last.executed = last.limit_at.exe

\* a run whose cap is reached in a nested block of a called function's caller
C2_Witness ==
    /\ last.outcome = "LimitReached"
    /\ last.count_before > 0
    /\ last.invocations >= 4
    /\ last.executed = last.invocations - 1
    /\ last.admitted # {}

\* C3: an evaluation fails with LimitReached only when count_expr exceeds
\* max_expressions, so a run of at most max_expressions nodes is not rejected.
C3_LimitThreshold ==
    last.outcome = "LimitReached" => last.count_after > max_expr

\* C4: a FunctionCall is rejected with RecursiveLimitReached exactly when the
\* nesting depth of active calls exceeds max_recursive; chains of depth at most
\* max_recursive are not rejected.
C4_RecursionThreshold ==
    /\ \A depth \in last.rejected : depth > max_recursive
    /\ \A depth \in last.admitted : depth <= max_recursive

-----------------------------------------------------------------------------
(* Paths as a state machine: one variable of the stack (binding), the Paths *)
(* handed out for it, and the constant behind Path::Borrowed.               *)

InterpIdle ==
    /\ program = Program("Plain", "Empty")
    /\ max_expr = 0
    /\ max_recursive = 0
    /\ count_expr = 0
    /\ recursive = 0
    /\ last = NoCall
    /\ ncalls = 0

MaxPathOps == 5
MaxHandles == 2
MaxCells == 4
MaxIndex == 2

Owned1 == OwnableOwned(U64(1))
Owned2 == OwnableOwned(U64(2))

\* the values a variable is first registered with (Path::Owned(value))
InitialValues ==
    { U64(1),
      Array(<<Owned1, Owned2>>),
      Array(<<OwnableOwned(Array(<<Owned1>>)), Owned2>>) }

\* the constants: a scalar, an array of boxed values, and an array whose
\* second element already lives in a shared cell (cell 1, holding 2)
Constants ==
    { U64(1), Array(<<Owned1, Owned2>>), Array(<<Owned1, OwnableRc(1)>>) }

WrittenValues == {U64(7), U64(8)}

\* a Path handed out, the indexes `at` of the place in the variable it was
\* taken for, and whether it was taken as an alias of that place
Handed(path, at, alias) == [path |-> path, at |-> at, alias |-> alias]

RemoveAt(seq, j) == [i \in 1..(Len(seq) - 1) |-> IF i < j THEN seq[i] ELSE seq[i + 1]]

Detached(seq) == [i \in 1..Len(seq) |-> [seq[i] EXCEPT !.alias = FALSE]]

PathInit ==
    /\ constant \in Constants
    /\ cells = IF constant = Array(<<Owned1, OwnableRc(1)>>) THEN <<U64(2)>> ELSE <<>>
    /\ snapshot = Contents(constant, cells)
    /\ binding \in {PathBorrowed} \cup {PathOwned(v) : v \in InitialValues}
    /\ handles = <<>>
    /\ path_ops = 0
    /\ InterpIdle /\ TypeIdle /\ CodeIdle /\ StackIdle /\ ManagerIdle /\ ViewIdle /\ OptionalIdle

PathStep ==
    /\ path_ops < MaxPathOps
    /\ path_ops' = path_ops + 1
    /\ UNCHANGED <<constant, snapshot, interpVars, typeVars, codeVars, stackVars, managerVars, viewVars, optVars>>

\* Stack::get_variable_path(name): Path::shareable on the binding
GetVariablePath ==
    /\ PathStep
    /\ Len(handles) < MaxHandles
    /\ Len(cells) < MaxCells
    /\ LET r == Shareable(binding, cells)
       IN  /\ binding' = r.self
           /\ cells' = r.heap
           /\ handles' = Append(handles, Handed(r.ret, <<>>, TRUE))

\* a constant is read as Path::Borrowed(&constant)
BorrowConstant ==
    /\ PathStep
    /\ Len(handles) < MaxHandles
    /\ handles' = Append(handles, Handed(PathBorrowed, <<>>, FALSE))
    /\ UNCHANGED <<binding, cells>>

\* Path::shareable on a Path handed out earlier
ShareHandle(j) ==
    /\ PathStep
    /\ j \in 1..Len(handles)
    /\ Len(handles) < MaxHandles
    /\ Len(cells) < MaxCells
    /\ LET r == Shareable(handles[j].path, cells)
       IN  /\ cells' = r.heap
           /\ handles' = Append([handles EXCEPT ![j].path = r.self],
                                Handed(r.ret, handles[j].at, handles[j].alias))
    /\ UNCHANGED binding

\* ValueOwnable::transform on the ValueOwnable of a Wrapper handed out earlier
TransformHandle(j) ==
    /\ PathStep
    /\ j \in 1..Len(handles)
    /\ handles[j].path.p = "Wrapper"
    /\ Len(handles) < MaxHandles
    /\ Len(cells) < MaxCells
    /\ LET r == Transform(handles[j].path.w, cells)
       IN  /\ cells' = r.heap
           /\ handles' = Append([handles EXCEPT ![j].path = PathWrapper(r.self)],
                                Handed(PathWrapper(r.ret), handles[j].at, handles[j].alias))
    /\ UNCHANGED binding

\* Path::get_sub_variable(self, index): the Path is consumed
SubVariable(j, index) ==
    /\ PathStep
    /\ j \in 1..Len(handles)
    /\ Len(cells) < MaxCells
    /\ LET h == handles[j]
           r == GetSubVariable(h.path, index, cells)
       IN  /\ cells' = r.heap
           /\ handles' =
                IF r.ok
                THEN Append(RemoveAt(handles, j),
                            Handed(r.ret, Append(h.at, index),
                                   h.alias /\ h.path.p = "Wrapper"))
                ELSE RemoveAt(handles, j)
    /\ UNCHANGED binding

\* Path::into_owned(self); the value goes on as Path::Owned(value)
TakeOwned(j) ==
    /\ PathStep
    /\ j \in 1..Len(handles)
    /\ handles' = [handles EXCEPT ![j] =
                      Handed(PathOwned(IntoOwned(handles[j].path, cells)), <<>>, FALSE)]
    /\ UNCHANGED <<binding, cells>>

\* Stack::register_variable(name, path): the Path becomes the variable
RegisterPath(j) ==
    /\ PathStep
    /\ j \in 1..Len(handles)
    /\ binding' = handles[j].path
    /\ handles' = Detached(RemoveAt(handles, j))
    /\ UNCHANGED cells

\* *path.as_mut() = value on a Path handed out earlier
WriteHandle(j, value) ==
    /\ PathStep
    /\ j \in 1..Len(handles)
    /\ LET r == AsMutWrite(handles[j].path, value, cells)
       IN  /\ cells' = r.heap
           /\ handles' = [handles EXCEPT ![j].path = r.self]
    /\ UNCHANGED binding

\* *path.as_mut() = value on the variable itself
WriteBinding(value) ==
    /\ PathStep
    /\ LET r == AsMutWrite(binding, value, cells)
       IN  /\ cells' = r.heap
           /\ binding' = r.self
    /\ UNCHANGED handles

PathNext ==
    \/ GetVariablePath
    \/ BorrowConstant
    \/ \E j \in 1..MaxHandles : ShareHandle(j)
    \/ \E j \in 1..MaxHandles : TransformHandle(j)
    \/ \E j \in 1..MaxHandles, index \in 0..MaxIndex : SubVariable(j, index)
    \/ \E j \in 1..MaxHandles : TakeOwned(j)
    \/ \E j \in 1..MaxHandles : RegisterPath(j)
    \/ \E j \in 1..MaxHandles, value \in WrittenValues : WriteHandle(j, value)
    \/ \E value \in WrittenValues : WriteBinding(value)

SpecPath == PathInit /\ [][PathNext]_vars

\* what the variable holds at the place a handed-out Path stands for
PlaceOf(h) == ContentsAt(Contents(AsRef(binding, cells), cells), h.at)

\* C6: a Path handed out by shareable, transform or get_sub_variable on a
\* Wrapper and the place of the variable it was taken for are one storage:
\* whatever is written through either, a read through as_ref on the handle
\* sees what the variable holds at that place.
C6_AliasCorrect ==
    \A j \in 1..Len(handles) :
        (handles[j].alias /\ PlaceOf(handles[j]) # Gone) =>
            Contents(AsRef(handles[j].path, cells), cells) = PlaceOf(handles[j])

\* C7: nothing done to Paths made from Path::Borrowed(&constant), nor any
\* write through them, changes what the constant holds, shared cells included.
C7_BorrowedUntouched ==
    Contents(constant, cells) = snapshot

-----------------------------------------------------------------------------
(* The Type operations applied to arguments drawn from bounded sets *)

MaxTypeDepth == 2
MaxByte == 255

Containers(S) ==
    {TyArray(t) : t \in S} \cup {TyOptional(t) : t \in S} \cup {TyRange(t) : t \in S}

RECURSIVE TypesOver(_, _)
\* the types of nesting depth at most d over the given atoms
TypesOver(atoms, d) ==
    IF d = 0 THEN atoms ELSE atoms \cup Containers(TypesOver(atoms, d - 1))

\* every type without an inner type; StructType is one declared structure
AllAtoms == {Ty(k) : k \in AtomKinds}
\* the atoms of the triples is_compatible_with is applied to, and the atoms
\* found inside their containers: a wildcard and concrete types
CompatAtoms == {Ty("Any"), Ty("T"), Ty("U8"), Ty("U16"), Ty("Struct")}
InnerAtoms == {Ty("Any"), Ty("U8")}

InnerTypes == TypesOver(InnerAtoms, MaxTypeDepth - 1)
Types == AllAtoms \cup Containers(InnerTypes)
CompatTypes == CompatAtoms \cup Containers(InnerTypes)

RECURSIVE HasWildcard(_)
HasWildcard(t) == t.k \in {"Any", "T"} \/ (t.inner # <<>> /\ HasWildcard(t.inner[1]))

NoTypes == <<>>

TypeInput(kind, types, byte) == [kind |-> kind, types |-> types, byte |-> byte]

\* 256^k, and the largest number of the given size in bytes
Pow256(k) == [i \in 1..(k + 1) |-> IF i = k + 1 THEN 1 ELSE 0]
MaxNumber(size) == [i \in 1..size |-> 255]

\* numbers around the limits of every width
Numbers ==
    {<<>>, <<1>>, <<200>>} \cup {Pow256(k) : k \in {1, 2, 4, 8, 16}}
        \cup {MaxNumber(SizeOf[k]) : k \in NumericKinds}
NumbersOf(kind) == {n \in Numbers : Len(n) <= SizeOf[kind]}
NumberValues == UNION {{ValueNumber(k, n) : n \in NumbersOf(k)} : k \in NumericKinds}

\* the values checked casts are applied to
CastSources ==
    NumberValues \cup {ValueBoolean(b) : b \in BOOLEAN}
        \cup {ValueNull, ValueString(<<>>), ValueArray(<<ValueNumber("U8", <<1>>)>>)}

ValueInput(kind, value, types) == [kind |-> kind, types |-> types, byte |-> 0, value |-> value]

\* values of every variant, and the values found inside arrays and optionals
ValueAtoms ==
    {ValueNumber(k, <<1>>) : k \in NumericKinds}
        \cup {ValueNull, ValueString(<<97>>), ValueBoolean(TRUE),
              ValueStruct(<<ValueNumber("U8", <<1>>)>>),
              ValueRange(ValueNumber("U8", <<>>), ValueNumber("U8", <<1>>), Ty("U8"))}
InnerValueAtoms == {ValueNull, ValueNumber("U8", <<1>>), ValueString(<<97>>)}

\* arrays of no, one and two elements and optionals with and without content
ValueContainers(S) ==
    {ValueArray(<<>>), ValueOptional(<<>>)}
        \cup {ValueArray(<<x>>) : x \in S} \cup {ValueOptional(<<x>>) : x \in S}
        \cup {ValueArray(<<x, y>>) : x \in S, y \in InnerValueAtoms}

RECURSIVE ValuesOver(_, _)
ValuesOver(atoms, d) ==
    IF d = 0 THEN atoms ELSE atoms \cup ValueContainers(ValuesOver(atoms, d - 1))

Values == ValueAtoms \cup ValueContainers(ValuesOver(InnerValueAtoms, MaxTypeDepth - 1))

TypeInit ==
    /\ \/ \E byte \in 0..MaxByte : ty_in = TypeInput("byte", NoTypes, byte)
       \/ \E t \in Types : ty_in = TypeInput("type", <<t>>, 0)
       \/ \E a \in CompatTypes, b \in CompatTypes, c \in CompatTypes :
             ty_in = TypeInput("triple", <<a, b, c>>, 0)
       \/ \E a \in Types, b \in Types : ty_in = TypeInput("pair", <<a, b>>, 0)
       \/ \E v \in CastSources, k \in NumericKinds : ty_in = ValueInput("cast", v, <<Ty(k)>>)
       \/ \E v \in Values : ty_in = ValueInput("value", v, NoTypes)
    /\ ty_out = Pending
    /\ InterpIdle /\ PathIdle /\ CodeIdle /\ StackIdle /\ ManagerIdle /\ ViewIdle /\ OptionalIdle

TypeStep ==
    /\ ty_out = Pending
    /\ UNCHANGED <<ty_in, interpVars, pathVars, codeVars, stackVars, managerVars, viewVars, optVars>>

\* t.primitive_byte(), and primitive_type_from_byte of the byte it gave
ApplyPrimitiveByte ==
    /\ TypeStep
    /\ ty_in.kind = "type"
    /\ LET byte == PrimitiveByte(ty_in.types[1])
       IN  ty_out' = [kind |-> "primitive_byte", byte |-> byte,
                      back |-> IF byte = NoneByte THEN NoType ELSE PrimitiveTypeFromByte(byte)]

\* Type::primitive_type_from_byte(byte), and primitive_byte of the type it gave
ApplyPrimitiveTypeFromByte ==
    /\ TypeStep
    /\ ty_in.kind = "byte"
    /\ LET t == PrimitiveTypeFromByte(ty_in.byte)
       IN  ty_out' = [kind |-> "primitive_type_from_byte", type |-> t,
                      back |-> IF t = NoType THEN NoneByte ELSE PrimitiveByte(t)]

\* is_compatible_with on the pairs of a triple a, b, c, bare and wrapped
ApplyIsCompatibleWith ==
    /\ TypeStep
    /\ ty_in.kind = "triple"
    /\ LET a == ty_in.types[1]
           b == ty_in.types[2]
           c == ty_in.types[3]
       IN  ty_out' =
             [kind |-> "is_compatible_with",
              aa |-> IsCompatibleWith(a, a),
              ab |-> IsCompatibleWith(a, b),
              ba |-> IsCompatibleWith(b, a),
              bc |-> IsCompatibleWith(b, c),
              ac |-> IsCompatibleWith(a, c),
              array_aa |-> IsCompatibleWith(TyArray(a), TyArray(a)),
              optional_aa |-> IsCompatibleWith(TyOptional(a), TyOptional(a)),
              range_aa |-> IsCompatibleWith(TyRange(a), TyRange(a)),
              array_ab |-> IsCompatibleWith(TyArray(a), TyArray(b)),
              array_bc |-> IsCompatibleWith(TyArray(b), TyArray(c)),
              array_ac |-> IsCompatibleWith(TyArray(a), TyArray(c)),
              optional_ab |-> IsCompatibleWith(TyOptional(a), TyOptional(b)),
              optional_bc |-> IsCompatibleWith(TyOptional(b), TyOptional(c)),
              optional_ac |-> IsCompatibleWith(TyOptional(a), TyOptional(c)),
              range_ab |-> IsCompatibleWith(TyRange(a), TyRange(b)),
              range_bc |-> IsCompatibleWith(TyRange(b), TyRange(c)),
              range_ac |-> IsCompatibleWith(TyRange(a), TyRange(c))]

\* is_compatible_with between a type x and the two wildcards, both ways
ApplyWildcards ==
    /\ TypeStep
    /\ ty_in.kind = "type"
    /\ LET x == ty_in.types[1]
       IN  ty_out' = [kind |-> "wildcards",
                      any_x |-> IsCompatibleWith(Ty("Any"), x),
                      t_x |-> IsCompatibleWith(Ty("T"), x),
                      x_any |-> IsCompatibleWith(x, Ty("Any")),
                      x_t |-> IsCompatibleWith(x, Ty("T"))]

\* is_compatible_with between a and b, between the containers of a and of b,
\* and between a and the containers of b
ApplyContainerCompatibility ==
    /\ TypeStep
    /\ ty_in.kind = "triple"
    /\ LET a == ty_in.types[1]
           b == ty_in.types[2]
       IN  ty_out' = [kind |-> "containers",
                      ab |-> IsCompatibleWith(a, b),
                      array_ab |-> IsCompatibleWith(TyArray(a), TyArray(b)),
                      optional_ab |-> IsCompatibleWith(TyOptional(a), TyOptional(b)),
                      range_ab |-> IsCompatibleWith(TyRange(a), TyRange(b)),
                      a_array_b |-> IsCompatibleWith(a, TyArray(b)),
                      a_optional_b |-> IsCompatibleWith(a, TyOptional(b)),
                      a_range_b |-> IsCompatibleWith(a, TyRange(b))]

\* a.is_castable_to(b)
ApplyIsCastableTo ==
    /\ TypeStep
    /\ ty_in.kind = "pair"
    /\ ty_out' = [kind |-> "is_castable_to",
                  castable |-> IsCastableTo(ty_in.types[1], ty_in.types[2])]

\* the Type a numeric or boolean value has
TypeOfScalar(v) == IF v.t = "Boolean" THEN Ty("Bool") ELSE Ty(v.t)

\* v.checked_cast_to_uN() for the target type uN, the cast of its result back
\* to the type of v, and is_castable_to_no_loss between the two types
ApplyCheckedCast ==
    /\ TypeStep
    /\ ty_in.kind = "cast"
    /\ LET v == ty_in.value
           type == ty_in.types[1]
           r == CheckedCast(v, type.k)
       IN  ty_out' = [kind |-> "checked_cast", cast |-> r,
                      back |-> IF r.ok /\ v.t \in NumericKinds
                               THEN CheckedCast(r.value, v.t)
                               ELSE ValueErr("NotCast"),
                      no_loss |-> IsCastableToNoLoss(TypeOfScalar(v), type)]

\* v.get_type() and every typed accessor on v
ApplyGetType ==
    /\ TypeStep
    /\ ty_in.kind = "value"
    /\ ty_out' = [kind |-> "get_type", type |-> GetType(ty_in.value),
                  accepted |-> {a \in Accessors : Accepts(a, ty_in.value)}]

TypeNext ==
    \/ ApplyPrimitiveByte
    \/ ApplyPrimitiveTypeFromByte
    \/ ApplyIsCompatibleWith
    \/ ApplyWildcards
    \/ ApplyContainerCompatibility
    \/ ApplyIsCastableTo
    \/ ApplyCheckedCast
    \/ ApplyGetType

SpecType == TypeInit /\ [][TypeNext]_vars

-----------------------------------------------------------------------------
(* Function resolution (Interpreter::get_function) over registries of        *)
(* functions with receiver types and parameter types                        *)

\* a function as get_function reads it: get_name, for_type, get_parameters_types
Signature(name, for_type, params) == [name |-> name, for_type |-> for_type, params |-> params]

\* get_function(name, for_type, parameters) over the program's functions
\* chained with the environment's: the position of the first function with
\* this name and arity whose receiver type is none when for_type is none and
\* else one for_type is compatible with, and whose every parameter type is
\* Any or equal to the argument's type; 0 for FunctionNotFound
GetFunctionIn(functions, name, for_type, parameters) ==
    LET same_type(f) ==
            IF for_type # NoType
            THEN IF f.for_type # NoType THEN IsCompatibleWith(for_type, f.for_type)
                 ELSE FALSE
            ELSE for_type = f.for_type
        ok(f) == /\ f.name = name
                 /\ Len(f.params) = Len(parameters)
                 /\ same_type(f)
                 /\ \A i \in 1..Len(f.params) :
                        ~(f.params[i] # Ty("Any") /\ f.params[i] # parameters[i])
        hits == {i \in 1..Len(functions) : ok(functions[i])}
    IN  IF hits = {} THEN 0 ELSE CHOOSE i \in hits : \A j \in hits : i <= j

\* the registries and calls get_function is applied to
MaxProgramFunctions == 2
MaxEnvFunctions == 1

SignaturePool ==
    {Signature("f", r, <<t>>) :
        r \in {NoType, TyOptional(Ty("T"))}, t \in {Ty("U8"), Ty("T"), Ty("Any")}}
    \cup {Signature("g", NoType, <<Ty("Any")>>)}

Registries(n) == UNION {[1..k -> SignaturePool] : k \in 0..n}

Receivers == {NoType, Ty("U8"), TyOptional(Ty("U8"))}
Arguments == {<<>>, <<Ty("U8")>>, <<Ty("Bool")>>}

ResolveInit ==
    /\ \E functions \in Registries(MaxProgramFunctions), env \in Registries(MaxEnvFunctions) :
         \E for_type \in Receivers, parameters \in Arguments :
            ty_in = [kind |-> "call", functions |-> functions, env |-> env, name |-> "f",
                     for_type |-> for_type, parameters |-> parameters]
    /\ ty_out = Pending
    /\ InterpIdle /\ PathIdle /\ CodeIdle /\ StackIdle /\ ManagerIdle /\ ViewIdle /\ OptionalIdle

\* self.get_function(name, for_type, parameters)
ApplyGetFunction ==
    /\ TypeStep
    /\ ty_in.kind = "call"
    /\ LET chain == ty_in.functions \o ty_in.env
           i == GetFunctionIn(chain, ty_in.name, ty_in.for_type, ty_in.parameters)
       IN  ty_out' = [kind |-> "get_function", index |-> i,
                      from_program |-> i \in 1..Len(ty_in.functions),
                      error |-> IF i = 0 THEN "FunctionNotFound" ELSE "",
                      name |-> ty_in.name, parameters |-> ty_in.parameters]

ResolveNext == ApplyGetFunction

SpecResolve == ResolveInit /\ [][ResolveNext]_vars

\* C19: get_function returns the first function, program functions before
\* environment functions in registration order, whose name and arity match,
\* whose receiver type goes with the call's receiver type, and whose every
\* parameter type is compatible with the argument type under
\* is_compatible_with (a parameter declared T or Any accepts any argument);
\* when there is none it fails with FunctionNotFound carrying the name and
\* the argument types.
C19_FunctionResolution ==
    ty_out.kind = "get_function" =>
        LET chain == ty_in.functions \o ty_in.env
            matches(f) ==
                /\ f.name = ty_in.name
                /\ Len(f.params) = Len(ty_in.parameters)
                /\ IF ty_in.for_type = NoType THEN f.for_type = NoType
                   ELSE f.for_type # NoType /\ IsCompatibleWith(ty_in.for_type, f.for_type)
                /\ \A i \in 1..Len(f.params) :
                        IsCompatibleWith(f.params[i], ty_in.parameters[i])
            hits == {i \in 1..Len(chain) : matches(chain[i])}
        IN  IF hits = {}
            THEN /\ ty_out.error = "FunctionNotFound"
                 /\ ty_out.name = ty_in.name /\ ty_out.parameters = ty_in.parameters
            ELSE /\ ty_out.index \in hits
                 /\ \A j \in hits : ty_out.index <= j

\* the wire assignment of the primitive types
WireByte ==
    [U8 |-> 0, U16 |-> 1, U32 |-> 2, U64 |-> 3, U128 |-> 4, U256 |-> 5,
     Bool |-> 6, String |-> 7]

\* C9: primitive_byte and primitive_type_from_byte are inverse bijections
\* between the eight primitive types and the bytes 0..7 with U8=0 .. String=7;
\* primitive_byte gives none for every other type and
\* primitive_type_from_byte gives none for every byte above 7.
C9_PrimitiveByteBijection ==
    /\ ty_out.kind = "primitive_byte" =>
          LET t == ty_in.types[1]
          IN  IF t.k \in Primitives /\ t.inner = <<>>
              THEN ty_out.byte = WireByte[t.k] /\ ty_out.back = t
              ELSE ty_out.byte = NoneByte
    /\ ty_out.kind = "primitive_type_from_byte" =>
          IF ty_in.byte <= 7
          THEN /\ ty_out.type.k \in Primitives
               /\ WireByte[ty_out.type.k] = ty_in.byte
               /\ ty_out.back = ty_in.byte
          ELSE ty_out.type = NoType

\* String went to byte 7 and byte 7 came back as String
C9_Witness ==
    /\ ty_out.kind = "primitive_byte"
    /\ ty_in.types[1] = Ty("String")
    /\ ty_out.byte = 7
    /\ ty_out.back = Ty("String")

C11_Wildcards ==
    ty_out.kind = "wildcards" =>
        ty_out.any_x /\ ty_out.t_x /\ ty_out.x_any /\ ty_out.x_t

\* C12: for Array, Optional and Range, C(a) is compatible with C(b) exactly
\* when a is compatible with b; and a type a that is no container is
\* compatible with C(b) exactly when a is compatible with b.
C12_ContainerCompatibility ==
    ty_out.kind = "containers" =>
        /\ ty_out.array_ab = ty_out.ab
        /\ ty_out.optional_ab = ty_out.ab
        /\ ty_out.range_ab = ty_out.ab
        /\ ty_in.types[1].inner = <<>> =>
              /\ ty_out.a_array_b = ty_out.ab
              /\ ty_out.a_optional_b = ty_out.ab
              /\ ty_out.a_range_b = ty_out.ab

\* C13: is_castable_to holds between every two different types among the
\* numeric widths and Bool, in both directions, from each of them to String,
\* and for no other pair of types.
C13_Castable ==
    ty_out.kind = "is_castable_to" =>
        LET a == ty_in.types[1]
            b == ty_in.types[2]
            scalar == NumericKinds \cup {"Bool"}
        IN  ty_out.castable <=>
               \/ a.k \in scalar /\ b.k \in scalar /\ a # b
               \/ a.k \in scalar /\ b.k = "String"

\* the width in bits of the numeric types
BitsOf == [U8 |-> 8, U16 |-> 16, U32 |-> 32, U64 |-> 64, U128 |-> 128, U256 |-> 256]

\* C14: a checked cast of a numeric or boolean value to uN succeeds with the
\* numerically equal value when the value fits in N bits and fails with
\* CastError exactly when it does not; a U8 value cast to any numeric type and
\* back is unchanged; and a cast allowed by is_castable_to_no_loss never fails.
C14_CheckedCast ==
    (ty_out.kind = "checked_cast" /\ ty_in.value.t \in NumericKinds \cup {"Boolean"}) =>
        LET v == ty_in.value
            target == ty_in.types[1].k
            fits == 8 * Len(v.n) <= BitsOf[target]
        IN  /\ ty_out.cast.ok <=> fits
            /\ ty_out.cast.ok => /\ ty_out.cast.value.t = target
                                 /\ ty_out.cast.value.n = v.n
            /\ ~ty_out.cast.ok => ty_out.cast.err = "CastError"
            /\ v.t = "U8" => /\ ty_out.cast.ok
                             /\ ty_out.back.ok
                             /\ ty_out.back.value = v
            /\ ty_out.no_loss => ty_out.cast.ok

\* u8 200 went to U256 and came back, and the cast is one without loss
C14_Witness ==
    /\ ty_out.kind = "checked_cast"
    /\ ty_in.value = ValueNumber("U8", <<200>>)
    /\ ty_in.types[1] = Ty("U256")
    /\ ty_out.cast = ValueOk(ValueNumber("U256", <<200>>))
    /\ ty_out.back = ValueOk(ValueNumber("U8", <<200>>))
    /\ ty_out.no_loss

\* the typed accessor that belongs to a type
AccessorOf(type) ==
    CASE type.k = "U8" -> "as_u8"
      [] type.k = "U16" -> "as_u16"
      [] type.k = "U32" -> "as_u32"
      [] type.k = "U64" -> "as_u64"
      [] type.k = "U128" -> "as_u128"
      [] type.k = "U256" -> "as_u256"
      [] type.k = "String" -> "as_string"
      [] type.k = "Bool" -> "as_bool"
      [] type.k = "Struct" -> "as_map"
      [] type.k = "Array" -> "as_vec"
      [] type.k = "Optional" -> "as_optional"
      [] type.k = "Range" -> "as_range"
      [] OTHER -> "none"

\* C15 as stated: when get_type(v) is defined the accessor of that type
\* accepts v and every other accessor rejects it; and get_type is undefined
\* exactly for Null, the empty array and the empty optional.
C15_TypeAccessorAgreement ==
    ty_out.kind = "get_type" =>
        LET v == ty_in.value
        IN  /\ ty_out.type.ok => ty_out.accepted = {AccessorOf(ty_out.type.type)}
            /\ ~ty_out.type.ok <=>
                  \/ v.t = "Null"
                  \/ v.t \in {"Array", "Optional"} /\ Len(v.v) = 0

RECURSIVE Untyped(_)
\* Null, an array without elements or whose first element is untyped, an
\* optional without content or whose content is untyped
Untyped(v) ==
    \/ v.t = "Null"
    \/ v.t \in {"Array", "Optional"} /\ (Len(v.v) = 0 \/ Untyped(v.v[1]))

\* C15 amended: when get_type(v) is defined the accessor of that type accepts
\* v and every other accessor rejects it; get_type is undefined exactly for
\* Null, for an array that is empty or whose first element has no type, and
\* for an optional that is empty or whose content has no type.
C15_TypeAccessorAgreementNested ==
    ty_out.kind = "get_type" =>
        /\ ty_out.type.ok => ty_out.accepted = {AccessorOf(ty_out.type.type)}
        /\ ~ty_out.type.ok <=> Untyped(ty_in.value)

\* an array of an optional u8 has the type Array(Optional(U8)) and is accepted
\* by as_vec alone
C15_Witness ==
    /\ ty_out.kind = "get_type"
    /\ ty_in.value = ValueArray(<<ValueOptional(<<ValueNumber("U8", <<1>>)>>)>>)
    /\ ty_out.type = TypeOk(TyArray(TyOptional(Ty("U8"))))
    /\ ty_out.accepted = {"as_vec"}

-----------------------------------------------------------------------------
(* The Stack as a state machine (interpreter/stack.rs)                       *)

\* scopes one stack holds, operations applied to it
MaxDepth == 3
MaxStackOps == 5

\* the variable ids and the numbers bound to them
Ids == {0, 1}
Bound == {1, 2}

\* what the stack test reads after an operation: for every id, whether
\* has_variable finds it and the number get_variable gives (-1 for none)
Visible(s) ==
    [id \in Ids |-> IF HasVariable(s, id) THEN GetVariable(s, id).v ELSE 0 - 1]

StackObservation(op, id, n, before, after) ==
    [op |-> op, id |-> id, n |-> n, before |-> before.scopes,
     err |-> IF after.res.k = "err" THEN after.res.v.v ELSE "",
     visible |-> Visible(after), ops |-> IF stack_last = Pending THEN 1 ELSE stack_last.ops + 1]

\* Stack::new()
StackInit ==
    /\ stack = [scopes |-> <<>>, res |-> OkNone]
    /\ stack_last = Pending
    /\ InterpIdle /\ PathIdle /\ TypeIdle /\ CodeIdle /\ ManagerIdle /\ ViewIdle /\ OptionalIdle

StackStep ==
    /\ IF stack_last = Pending THEN TRUE ELSE stack_last.ops < MaxStackOps
    /\ UNCHANGED <<interpVars, pathVars, typeVars, codeVars, managerVars, viewVars, optVars>>

\* the stack an operation starts from: the result of the last one is gone
Ready == [stack EXCEPT !.res = OkNone]

\* stack.begin_scope()
StackBeginScope ==
    /\ StackStep
    /\ Len(stack.scopes) < MaxDepth
    /\ stack' = BeginScope(Ready)
    /\ stack_last' = StackObservation("begin_scope", 0, 0, stack, stack')

\* stack.end_scope()
StackEndScope ==
    /\ StackStep
    /\ stack' = EndScope(Ready)
    /\ stack_last' = StackObservation("end_scope", 0, 0, stack, stack')

\* stack.register_variable(id, Path::Owned(Value(n)))
StackRegisterVariable(id, n) ==
    /\ StackStep
    /\ stack' = RegisterVariable(Ready, id, VInt(n))
    /\ stack_last' = StackObservation("register_variable", id, n, stack, stack')

StackNext ==
    \/ StackBeginScope
    \/ StackEndScope
    \/ \E id \in Ids, n \in Bound : StackRegisterVariable(id, n)

SpecStack == StackInit /\ [][StackNext]_vars

\* the scopes of a stack that bind id, and the innermost of them
Binding(scopes, id) == {i \in 1..Len(scopes) : id \in DOMAIN scopes[i]}
Innermost(scopes, id) ==
    CHOOSE i \in Binding(scopes, id) : \A j \in Binding(scopes, id) : j <= i

\* C23: a registered variable is found as long as its scope is on the stack;
\* has_variable / get_variable answer with the binding of the innermost
\* scope that has the id; after end_scope has popped a scope its variables
\* are found only if an outer scope binds the same id; register_variable
\* and end_scope on an empty stack fail with NoScopeFound.
C23_ScopeVisibility ==
    stack_last # Pending =>
        LET before == stack_last.before
            now == stack.scopes
        IN  /\ \A id \in Ids :
                  IF Binding(now, id) = {} THEN stack_last.visible[id] = 0 - 1
                  ELSE stack_last.visible[id] = now[Innermost(now, id)][id].v
            /\ stack_last.op = "register_variable" =>
                  IF before = <<>>
                  THEN stack_last.err = "NoScopeFound" /\ now = before
                  ELSE /\ stack_last.err = ""
                       /\ Len(now) = Len(before)
                       /\ \A i \in 1..(Len(now) - 1) : now[i] = before[i]
                       /\ stack_last.visible[stack_last.id] = stack_last.n
            /\ stack_last.op = "end_scope" =>
                  IF before = <<>>
                  THEN stack_last.err = "NoScopeFound" /\ now = before
                  ELSE /\ stack_last.err = ""
                       /\ now = SubSeq(before, 1, Len(before) - 1)
                       /\ \A id \in Ids :
                             stack_last.visible[id] # 0 - 1 <=>
                                \E i \in 1..(Len(before) - 1) : id \in DOMAIN before[i]
            /\ stack_last.op = "begin_scope" =>
                  /\ Len(now) = Len(before) + 1
                  /\ \A i \in 1..Len(before) : now[i] = before[i]

\* id 0 was bound to 1 outside and to 2 inside, and the inner scope was
\* popped: the outer binding is the one that is found
C23_Witness ==
    /\ stack_last # Pending /\ stack_last.op = "end_scope"
    /\ Len(stack_last.before) = 2
    /\ 0 \in DOMAIN stack_last.before[1] /\ stack_last.before[1][0].v = 1
    /\ 0 \in DOMAIN stack_last.before[2] /\ stack_last.before[2][0].v = 2
    /\ stack_last.visible[0] = 1 /\ stack_last.visible[1] = 0 - 1

-----------------------------------------------------------------------------
(* The TypeManager as a state machine (builder/src/manager/mod.rs), one      *)
(* layer (TypeManager::new, no parent)                                       *)

\* registrations applied to one manager
MaxManagerOps == 4

StructNamesOf == {"A", "B"}
FieldNames == {<<>>, <<"x">>, <<"y">>}

\* IdMapper: the ids given to the names, and the next id
MapperHasVariable(mapper, name) == name \in DOMAIN mapper.ids
MapperRegister(mapper, name) ==
    [ids |-> [n \in DOMAIN mapper.ids \cup {name} |->
                IF n = name THEN mapper.next ELSE mapper.ids[n]],
     next |-> mapper.next + 1]
MapperGet(mapper, name) ==
    IF name \in DOMAIN mapper.ids THEN [ok |-> TRUE, id |-> mapper.ids[name]]
    ELSE [ok |-> FALSE, id |-> 0 - 1]

BuilderErr(e) == [ok |-> FALSE, err |-> e]

\* what build_struct_internal must not be: one without the test of the name
BuildStructInternalUnchecked(m, name, fields) ==
    [ok |-> TRUE, mapper |-> MapperRegister(m.mapper, name),
     builder |-> [id |-> m.mapper.next, fields_names |-> fields]]

\* build_struct_internal: StructNameAlreadyUsed for a name the mapper has,
\* else the name is registered and the builder made with its id
BuildStructInternal(m, name, fields) ==
    IF MapperHasVariable(m.mapper, name) THEN BuilderErr("StructNameAlreadyUsed")
    ELSE [ok |-> TRUE, mapper |-> MapperRegister(m.mapper, name),
          builder |-> [id |-> m.mapper.next, fields_names |-> fields]]

\* add / build_struct: build_struct_internal(..)?, then types.push(builder)
AddStruct(m, name, fields) ==
    LET b == BuildStructInternal(m, name, fields)
    IN  IF ~b.ok THEN [m |-> m, err |-> b.err]
        ELSE [m |-> [types |-> Append(m.types, b.builder), mapper |-> b.mapper], err |-> ""]

\* get_by_id without a parent: the first type with this id
GetById(m, id) ==
    LET hits == {i \in 1..Len(m.types) : m.types[i].id = id}
    IN  IF hits = {} THEN BuilderErr("StructNotFound")
        ELSE [ok |-> TRUE, builder |-> m.types[CHOOSE i \in hits : \A j \in hits : i <= j]]

\* get_by_name: mapper.get(name)?, then get_by_id
GetByName(m, name) ==
    LET id == MapperGet(m.mapper, name)
    IN  IF ~id.ok THEN BuilderErr("MappingNotFound") ELSE GetById(m, id.id)

NoFields == <<"-">>

\* TypeManager::new()
ManagerInit ==
    /\ manager = [types |-> <<>>, mapper |-> [ids |-> <<>>, next |-> 0]]
    /\ manager_last = Pending
    /\ InterpIdle /\ PathIdle /\ TypeIdle /\ CodeIdle /\ StackIdle /\ ViewIdle /\ OptionalIdle

\* the fields each name was first registered with ("-" for a name never
\* registered), noted as the registrations are asked for
FirstOf(name, fields) ==
    [n \in StructNamesOf |->
        IF manager_last = Pending THEN (IF n = name THEN fields ELSE NoFields)
        ELSE IF n = name /\ manager_last.first[n] = NoFields THEN fields
        ELSE manager_last.first[n]]

ManagerStep(op, name, fields) ==
    /\ IF manager_last = Pending THEN TRUE ELSE manager_last.ops < MaxManagerOps
    /\ LET r == AddStruct(manager, name, fields)
       IN  /\ manager' = r.m
           /\ manager_last' =
                [op |-> op, name |-> name, err |-> r.err, before |-> manager,
                 known |-> IF manager_last = Pending THEN FALSE
                           ELSE manager_last.first[name] # NoFields,
                 first |-> FirstOf(name, fields),
                 ops |-> IF manager_last = Pending THEN 1 ELSE manager_last.ops + 1]
    /\ UNCHANGED <<interpVars, pathVars, typeVars, codeVars, stackVars, viewVars, optVars>>

\* manager.add(name, fields)
ManagerAdd(name, fields) == ManagerStep("add", name, fields)

\* manager.build_struct(name, fields)
ManagerBuildStruct(name, fields) == ManagerStep("build_struct", name, fields)

ManagerNext ==
    \/ \E name \in StructNamesOf, fields \in FieldNames : ManagerAdd(name, fields)
    \/ \E name \in StructNamesOf, fields \in FieldNames : ManagerBuildStruct(name, fields)

SpecManager == ManagerInit /\ [][ManagerNext]_vars

\* C24: registering a name that is already registered fails with
\* StructNameAlreadyUsed and changes neither the types nor the mapper; so
\* every name resolves through get_by_name to exactly the struct first
\* registered under it, and a name never registered resolves to none.
C24_DuplicateNames ==
    manager_last # Pending =>
        /\ IF manager_last.known
           THEN manager_last.err = "StructNameAlreadyUsed" /\ manager = manager_last.before
           ELSE /\ manager_last.err = ""
                /\ Len(manager.types) = Len(manager_last.before.types) + 1
        /\ \A n \in StructNamesOf :
              LET found == GetByName(manager, n)
              IN  IF manager_last.first[n] = NoFields THEN ~found.ok
                  ELSE found.ok /\ found.builder.fields_names = manager_last.first[n]
        /\ \A i \in 1..Len(manager.types), j \in 1..Len(manager.types) :
              i # j => manager.types[i].id # manager.types[j].id

\* A was registered with the field x, then again with the field y: the
\* second registration failed and A is still the struct with x
C24_Witness ==
    /\ manager_last # Pending /\ manager_last.name = "A" /\ manager_last.known
    /\ manager_last.first["A"] = <<"x">>
    /\ manager_last.err = "StructNameAlreadyUsed"
    /\ Len(manager.types) = 2
    /\ GetByName(manager, "A").builder.fields_names = <<"x">>

-----------------------------------------------------------------------------
(* The views of shared cells (types/src/values.rs): InnerValue is an         *)
(* Rc<RefCell<Value>>; every ValueOwnable::Rc cloned from another names the  *)
(* same cell; handle gives a Ref and handle_mut a RefMut of the cell, each   *)
(* live until it is dropped.  flags[c] is the borrow flag of the RefCell of  *)
(* cell c: 0 unused, n > 0 shared by n Refs, -1 held by a RefMut.            *)

MaxAliases == 3
MaxViewCells == 2
MaxViews == 3
MaxViewOps == 6

Writing == 0 - 1

\* what InnerValue::borrow_mut must not be: a RefMut handed out whatever
\* the borrow flag is
BorrowMutUnchecked(flag) == [ok |-> TRUE, flag |-> Writing]

\* InnerValue::borrow_mut: RefCell::borrow_mut, a panic unless the cell is unused
BorrowMut(flag) ==
    IF flag # 0 THEN [ok |-> FALSE, flag |-> flag] ELSE [ok |-> TRUE, flag |-> Writing]

\* InnerValue::borrow: RefCell::borrow, a panic while a RefMut is live
Borrow(flag) ==
    IF flag < 0 THEN [ok |-> FALSE, flag |-> flag] ELSE [ok |-> TRUE, flag |-> flag + 1]

\* drop of a Ref / of a RefMut
Release(flag, mut) == IF mut THEN 0 ELSE flag - 1

\* the live views taken through alias a / of cell c
ViewsThrough(a) == {i \in DOMAIN views : views[i].alias = a}
ViewsOf(c) == {i \in DOMAIN views : aliases[views[i].alias] = c}

ViewAttempt(op, a, outcome) ==
    [op |-> op, alias |-> a, cell |-> aliases[a],
     writer_before |-> \E i \in ViewsOf(aliases[a]) : views[i].mut,
     viewed_before |-> ViewsOf(aliases[a]) # {},
     outcome |-> outcome,
     ops |-> IF view_last = Pending THEN 1 ELSE view_last.ops + 1]

\* one InnerValue::new(value) wrapped in a ValueOwnable::Rc
ViewInit ==
    /\ aliases = <<1>>
    /\ flags = <<0>>
    /\ views = <<>>
    /\ view_last = Pending
    /\ InterpIdle /\ PathIdle /\ TypeIdle /\ CodeIdle /\ StackIdle /\ ManagerIdle /\ OptionalIdle

\* a panic ends the thread
ViewStep ==
    /\ IF view_last = Pending THEN TRUE
       ELSE view_last.ops < MaxViewOps /\ view_last.outcome # "panic"
    /\ UNCHANGED <<interpVars, pathVars, typeVars, codeVars, stackVars, managerVars, optVars>>

\* ValueOwnable::Rc(InnerValue::new(value)): a new cell and its first alias
ViewNew ==
    /\ ViewStep
    /\ Len(aliases) < MaxAliases /\ Len(flags) < MaxViewCells
    /\ flags' = Append(flags, 0)
    /\ aliases' = Append(aliases, Len(flags) + 1)
    /\ view_last' = ViewAttempt("new", 1, "ok")
    /\ UNCHANGED views

\* clone of a ValueOwnable::Rc (&self: no RefMut taken through it is live)
ViewClone(a) ==
    /\ ViewStep
    /\ a \in DOMAIN aliases /\ Len(aliases) < MaxAliases
    /\ \A i \in ViewsThrough(a) : ~views[i].mut
    /\ aliases' = Append(aliases, aliases[a])
    /\ view_last' = ViewAttempt("clone", a, "ok")
    /\ UNCHANGED <<flags, views>>

\* the end of an attempt to take a view of the cell of alias a
ViewTaken(op, a, mut, out) ==
    /\ flags' = [flags EXCEPT ![aliases[a]] = out.flag]
    /\ views' = IF out.ok THEN Append(views, [alias |-> a, mut |-> mut]) ELSE views
    /\ view_last' = ViewAttempt(op, a, IF out.ok THEN "ok" ELSE "panic")
    /\ UNCHANGED aliases

\* ValueOwnable::handle(&self) on the Rc alias a
ViewHandle(a) ==
    /\ ViewStep
    /\ a \in DOMAIN aliases /\ Len(views) < MaxViews
    /\ \A i \in ViewsThrough(a) : ~views[i].mut
    /\ ViewTaken("handle", a, FALSE, Borrow(flags[aliases[a]]))

\* ValueOwnable::handle_mut(&mut self) on the Rc alias a
ViewHandleMut(a) ==
    /\ ViewStep
    /\ a \in DOMAIN aliases /\ Len(views) < MaxViews
    /\ ViewsThrough(a) = {}
    /\ ViewTaken("handle_mut", a, TRUE, BorrowMut(flags[aliases[a]]))

\* Path::get_sub_variable on a Path::Wrapper made of a clone of alias a: the
\* RefMut of handle_mut lives until the call returns
ViewSubVariable(a) ==
    /\ ViewStep
    /\ a \in DOMAIN aliases
    /\ \A i \in ViewsThrough(a) : ~views[i].mut
    /\ LET out == BorrowMut(flags[aliases[a]])
       IN  view_last' = ViewAttempt("get_sub_variable", a, IF out.ok THEN "ok" ELSE "panic")
    /\ UNCHANGED <<aliases, flags, views>>

\* drop of the i-th live view
ViewDrop(i) ==
    /\ ViewStep
    /\ i \in DOMAIN views
    /\ flags' = [flags EXCEPT ![aliases[views[i].alias]] = Release(@, views[i].mut)]
    /\ views' = [j \in 1..(Len(views) - 1) |-> IF j < i THEN views[j] ELSE views[j + 1]]
    /\ view_last' = ViewAttempt("drop", views[i].alias, "ok")
    /\ UNCHANGED aliases

ViewNext ==
    \/ ViewNew
    \/ \E a \in 1..MaxAliases : ViewClone(a)
    \/ \E a \in 1..MaxAliases : ViewHandle(a)
    \/ \E a \in 1..MaxAliases : ViewHandleMut(a)
    \/ \E a \in 1..MaxAliases : ViewSubVariable(a)
    \/ \E i \in 1..MaxViews : ViewDrop(i)

SpecView == ViewInit /\ [][ViewNext]_vars

\* C26: a RefMut of a cell never coexists with another view of the same
\* cell, and every attempt to take a view of a cell (handle, handle_mut or
\* the handle_mut of get_sub_variable, through any alias) while a RefMut of
\* it is live, or a RefMut while any view of it is live, panics at once.
C26_OverlapDetected ==
    /\ \A i \in DOMAIN views : \A j \in DOMAIN views :
          (i # j /\ views[i].mut) => aliases[views[i].alias] # aliases[views[j].alias]
    /\ (view_last # Pending /\ view_last.op \in {"handle", "handle_mut", "get_sub_variable"}) =>
          /\ view_last.writer_before => view_last.outcome = "panic"
          /\ (view_last.op # "handle" /\ view_last.viewed_before) => view_last.outcome = "panic"

\* a handle through one alias was refused while a RefMut taken through
\* another alias of the cell is live
C26_Witness ==
    /\ view_last # Pending /\ view_last.op = "handle" /\ view_last.outcome = "panic"
    /\ \E i \in DOMAIN views :
          /\ views[i].mut /\ views[i].alias # view_last.alias
          /\ aliases[views[i].alias] = view_last.cell

-----------------------------------------------------------------------------
(* The native methods of Optional (builder/src/environment/xstd/optional.rs) *)
(* applied to one receiver: zelf is the &mut Value of the receiver.  The     *)
(* Option<ValueOwnable> of a Value::Optional is a sequence of at most one    *)
(* value.                                                                    *)

MaxOptionalOps == 4

OptionalReceivers ==
    {ValueNull, ValueOptional(<<>>), ValueOptional(<<ValueNumber("U8", <<1>>)>>),
     ValueOptional(<<ValueNumber("U8", <<2>>)>>), ValueOptional(<<ValueBoolean(TRUE)>>),
     ValueOptional(<<ValueString(<<>>)>>), ValueNumber("U8", <<1>>)}

Defaults == {ValueNumber("U8", <<2>>), ValueString(<<>>)}

\* the result of a Value method taking &mut self, and self after it
Taken(res, self) == [res |-> res, self |-> self]

\* Value::as_optional(&self, expected): Null reads as None
AsOptional(self) ==
    CASE self.t = "Null" -> ValueOk(ValueOptional(<<>>))
      [] self.t = "Optional" -> ValueOk(self)
      [] OTHER -> ValueErr("InvalidValue")

\* Value::take_from_optional(&mut self, expected): opt.take().ok_or(OptionalIsNull)
TakeFromOptional(self) ==
    IF self.t # "Optional" THEN Taken(ValueErr("InvalidValue"), self)
    ELSE IF self.v = <<>> THEN Taken(ValueErr("OptionalIsNull"), self)
    ELSE Taken(ValueOk(self.v[1]), ValueOptional(<<>>))

\* Value::take_optional(&mut self): Ok(opt.take()), returned as an Optional
TakeOptional(self) ==
    IF self.t # "Optional" THEN Taken(ValueErr("InvalidValue"), self)
    ELSE Taken(ValueOk(self), ValueOptional(<<>>))

\* fn is_none(zelf, _)
IsNone(zelf) ==
    LET o == AsOptional(zelf)
    IN  Taken(IF o.ok THEN ValueOk(ValueBoolean(o.value.v = <<>>)) ELSE o, zelf)

\* fn is_some(zelf, _)
IsSome(zelf) ==
    LET o == AsOptional(zelf)
    IN  Taken(IF o.ok THEN ValueOk(ValueBoolean(o.value.v # <<>>)) ELSE o, zelf)

\* fn unwrap(zelf, _)
Unwrap(zelf) == TakeFromOptional(zelf)

\* fn unwrap_or(zelf, parameters), default being parameters.remove(0)
UnwrapOr(zelf, default) ==
    LET o == TakeOptional(zelf)
    IN  IF ~o.res.ok THEN o
        ELSE IF o.res.value.v # <<>> THEN Taken(ValueOk(o.res.value.v[1]), o.self)
        ELSE Taken(ValueOk(default), o.self)

\* a variable holding the receiver the methods are called on
OptionalInit ==
    /\ receiver \in OptionalReceivers
    /\ receiver_last = Pending
    /\ InterpIdle /\ PathIdle /\ TypeIdle /\ CodeIdle /\ StackIdle /\ ManagerIdle /\ ViewIdle

OptionalCall(method, out) ==
    /\ IF receiver_last = Pending THEN TRUE ELSE receiver_last.ops < MaxOptionalOps
    /\ receiver' = out.self
    /\ receiver_last' = [method |-> method, before |-> receiver, result |-> out.res,
                         ops |-> IF receiver_last = Pending THEN 1 ELSE receiver_last.ops + 1]
    /\ UNCHANGED <<interpVars, pathVars, typeVars, codeVars, stackVars, managerVars, viewVars>>

CallIsNone == OptionalCall("is_none", IsNone(receiver))

CallIsSome == OptionalCall("is_some", IsSome(receiver))

CallUnwrap == OptionalCall("unwrap", Unwrap(receiver))

CallUnwrapOr(default) == OptionalCall("unwrap_or", UnwrapOr(receiver, default))

OptionalNext ==
    \/ CallIsNone
    \/ CallIsSome
    \/ CallUnwrap
    \/ \E default \in Defaults : CallUnwrapOr(default)

SpecOptional == OptionalInit /\ [][OptionalNext]_vars

\* C30: is_none, is_some, unwrap and unwrap_or leave their receiver as it
\* was: after each call the receiver holds what it held before the call.
C30_ReceiverUnchanged ==
    receiver_last # Pending => receiver = receiver_last.before

-----------------------------------------------------------------------------
(* Names, short circuits, else chains, calls and loops, under Spec *)

\* C21: reading a variable that no scope of the Context binds yields
\* VariableNotFound; the evaluator never panics on an undefined name.
C21_UndefinedVariable ==
    /\ last.outcome # "panic"
    /\ (program.leaf = "Undef" /\ last.name = "main"
          /\ last.outcome \notin {"LimitReached", "cutoff"}) =>
            last.outcome = "VariableNotFound"

\* C28: the recursion counter is balanced: when call_entry_function returns,
\* with a value or with any error (an error of the callee, FunctionNotFound,
\* RecursiveLimitReached), `recursive` is what it was before the call, so it
\* is 0 between calls and the next call has the whole recursion budget.
C28_RecursionBalanced ==
    (last # NoCall /\ last.outcome \notin {"panic", "cutoff"}) =>
        /\ last.recursive_after = last.recursive_before
        /\ recursive = 0

-----------------------------------------------------------------------------
(* Loop flags, under SpecLoop *)

\* the left operands of the `+= k` statements that ran
Marks(k) == {o.l : o \in {p \in last.ops : p.op = "AssignPlus" /\ p.r = k}}

\* the loop condition was evaluated again after the first iteration
Retested == \E o \in last.ops : o.op = "LessThan" /\ o.l # 0

\* C29: a Break or Continue in a loop body, inside any If / Scope blocks,
\* stops the rest of the iteration; Break ends the innermost loop, Continue
\* goes on to its next iteration; a loop that finishes normally leaves
\* loop_break and loop_continue false, and the loop around it goes on.
C29_LoopFlags ==
    /\ \A b \in last.blocks :
          (b.kind \in {"For", "ForEach", "While"} /\ b.how = "next") => ~b.flagged
    /\ (last # NoCall /\ last.name = "main") =>
          last.outcome \in {"val", "LimitReached", "cutoff"}
    /\ (last # NoCall /\ last.name = "main" /\ last.outcome = "val") =>
        /\ program.two => Marks(16) = {1}
        /\ program.leaf # "Empty" => Marks(4) = {}
        /\ program.leaf = "Empty" =>
              Marks(4) = (IF program.type = "ForEach" THEN {11, 21} ELSE {1})
        /\ program.type = "ForEach" =>
              Marks(1) = (IF program.leaf = "Break" THEN {10} ELSE {10, 20})
        /\ program.type # "ForEach" =>
              /\ Marks(1) = {0}
              /\ Retested <=> program.leaf # "Break"

\* a Break inside an If inside a Scope ended the inner of two loops after its
\* first iteration, and the outer loop went on
C29_Witness ==
    /\ last # NoCall /\ last.name = "main" /\ last.outcome = "val"
    /\ program.two /\ program.leaf = "Break" /\ program.kind = "Nested"
    /\ program.type = "ForEach"
    /\ Marks(1) = {10} /\ Marks(16) = {1}

\* a Continue inside an If went on to the second iteration
C29_ContinueWitness ==
    /\ last # NoCall /\ last.name = "main" /\ last.outcome = "val"
    /\ program.leaf = "Continue" /\ program.kind = "If"
    /\ program.type = "ForEach"
    /\ Marks(1) = {10, 20} /\ Marks(4) = {}

-----------------------------------------------------------------------------
(* Else chains, under SpecChain *)

\* C25: within one statement sequence accept_else is true after
\* an If or ElseIf whose condition was false, is false after an ElseIf or Else
\* whose body ran and after any other statement that is neither If nor ElseIf,
\* and an ElseIf or Else body runs only when accept_else is true.
C25_AcceptElseLatch ==
    (last # NoCall /\ last.name = "main" /\ last.outcome = "val") =>
        \A e \in last.latches :
            /\ (e.kind \in {"If", "ElseIf"} /\ e.cond = "false") => e.after
            /\ (e.kind \in {"ElseIf", "Else"} /\ e.fired) => (e.before /\ ~e.after)
            /\ e.kind = "Else" => ~e.after

\* The bodies of a chain program that run when each chain runs the first of
\* its bodies whose condition is true and no other; open: the chain that
\* statement p belongs to has run no body yet.
RECURSIVE ChainValue(_, _, _)
ChainValue(c, p, open) ==
    IF p > Len(c) THEN 0
    ELSE LET it == c[p]
             runs == IF IsIf(it) THEN it = "IfT" ELSE open /\ it # "ElseIfF"
             still == IF IsIf(it) THEN it = "IfF" ELSE open /\ ~runs
         IN  (IF runs THEN Mark(p) ELSE 0) + ChainValue(c, p + 1, still)

\* C27: in a chain if / else if / else exactly the first body whose condition
\* is true runs (the else body when none is), so no ElseIf or Else body runs
\* after an earlier branch of its chain ran, and an Else does not attach to an
\* If that ran its body.
C27_ElseChainExclusive ==
    (last # NoCall /\ last.name = "main" /\ last.outcome = "val") =>
        last.value = ChainValue(program.items, 1, FALSE)

(* Short circuits, under SpecShort *)

\* the operand `side` of the program is the one the expression skips
Skips == program.kind = "Ternary" \/ (program.kind = "And" /\ ~program.c)
         \/ (program.kind = "Or" /\ program.c)

\* the AST nodes of main outside the skipped operand: three statements, the
\* literals of x and of the return, the expression, its condition, and for
\* the ternary the chosen branch
NodesOutside == IF program.kind = "Ternary" THEN 8 ELSE 7

\* C22: for a && b with a false, a || b with a true and c ? x : y, the
\* skipped operand is not evaluated: it adds nothing to count_expr, none of
\* its assignments or calls happens, and it raises no error.
C22_ShortCircuit ==
    (program.kind \in ShortKinds /\ last.name = "main" /\ Skips) =>
        /\ last.outcome \in {"val", "LimitReached"}
        /\ last.ops = {} /\ last.admitted = {} /\ last.rejected = {}
        /\ last.outcome = "val" => last.count_after - last.count_before = NodesOutside

\* false && h() ran to its end and charged only the nodes outside h()
C22_Witness ==
    /\ program.kind = "And" /\ ~program.c /\ program.leaf = "Call"
    /\ last.name = "main" /\ last.outcome = "val"
    /\ last.count_after - last.count_before = 7 /\ last.admitted = {}

-----------------------------------------------------------------------------
(* Struct construction, under SpecStruct *)

\* C18: every Struct value the evaluator produces is of a declared struct,
\* has exactly the declared fields (none missing, none unknown), each of
\* the declared type.
C18_StructWellFormed ==
    \A st \in last.structs :
        /\ st.name \in DOMAIN program.structures
        /\ st.fields = DOMAIN program.structures[st.name]
        /\ \A n \in st.fields : st.types[n] = program.structures[st.name][n]

-----------------------------------------------------------------------------
(* Entry functions, under SpecEntry *)

\* the function a call by this name resolves to (the names are unique)
Resolved(name) ==
    {program.functions[i] : i \in {j \in DOMAIN program.functions :
                                      program.functions[j].name = name}}

C20_CoercionWitness ==
    /\ program.kind = "Entry" /\ last.name = "main"
    /\ \/ program.leaf = "Short" /\ last.outcome = "val" /\ last.value = 65535
       \/ program.leaf = "End" /\ last.outcome = "NoExitCode"

-----------------------------------------------------------------------------
(* Checked arithmetic, under SpecArith *)

\* the largest number of a type that the programs can reach
MaxOf(t) == CASE t = "Byte" -> 2^8 - 1 [] t = "Short" -> 2^16 - 1 [] t = "Int" -> 2^30

AddOperators == {"Plus", "AssignPlus"}
SubOperators == {"Minus", "AssignMinus"}
MulOperators == {"Multiply", "AssignMultiply"}

\* the mathematical result of o is a number of its type
Fits(o) ==
    CASE o.op \in AddOperators -> o.l <= MaxOf(o.t) - o.r
      [] o.op \in SubOperators -> o.r <= o.l
      [] o.op \in MulOperators -> o.l = 0 \/ o.r <= MaxOf(o.t) \div o.l

Exact(o) ==
    CASE o.op \in AddOperators -> o.l + o.r
      [] o.op \in SubOperators -> o.l - o.r
      [] o.op \in MulOperators -> o.l * o.r

\* C16: every +, -, * and +=, -=, *= the evaluator applies yields the exact
\* result when that result fits the operand type and OverflowOccured when it
\* does not, never a wrapped number; a compound form that overflows leaves
\* the assigned variable as it was; and (a + b) - b is a whenever a + b fits.
C16_CheckedArithmetic ==
    /\ \A o \in last.ops :
          o.op \in AddOperators \cup SubOperators \cup MulOperators =>
            IF Fits(o)
            THEN /\ o.how = "val" /\ o.value = Exact(o)
                 /\ o.compound => o.after = Exact(o)
            ELSE /\ o.how = "err" /\ o.err = "OverflowOccured"
                 /\ o.compound => o.after = o.l
    /\ (program.kind = "RoundTrip" /\ last.name = "main") =>
          /\ last.outcome = "val" =>
                \E o \in last.ops :
                    /\ o.op = "Minus" /\ o.l = program.a + program.b
                    /\ o.r = program.b /\ o.value = program.a
          /\ last.outcome = "OverflowOccured" => program.a + program.b > MaxOf(program.t)
          /\ (\E o \in last.ops : o.op = "Plus" /\ ~Fits(o)) =>
                last.outcome = "OverflowOccured"

\* a u8 round trip that comes back to its start
C16_RoundTripWitness ==
    /\ program.kind = "RoundTrip" /\ program.t = "Byte"
    /\ program.a = 200 /\ program.b = 16
    /\ last.outcome = "val"
    /\ \E o \in last.ops : o.op = "Minus" /\ o.l = 216 /\ o.value = 200

\* a compound u16 multiplication that overflows and leaves its variable alone
C16_Witness ==
    \E o \in last.ops :
        /\ o.op = "AssignMultiply" /\ o.t = "Short" /\ o.l = 256 /\ o.r = 256
        /\ o.err = "OverflowOccured" /\ o.after = 256

\* C17: a division or a modulo by zero, binary (/, %) or compound (/=, %=),
\* yields DivByZero, never a panic, and the compound forms leave the
\* assigned variable as it was.
C17_DivisionByZero ==
    /\ last.outcome # "panic"
    /\ \A o \in last.ops :
          (o.op \in {"Divide", "Modulo", "AssignDivide", "AssignModulo"} /\ o.r = 0) =>
            /\ o.how = "err" /\ o.err = "DivByZero"
            /\ o.compound => o.after = o.l

-----------------------------------------------------------------------------
(* The OpCode conversions applied to every opcode and every byte *)

CodeInput(kind, op, byte) == [kind |-> kind, op |-> op, byte |-> byte]

CodeInit ==
    /\ \/ \E op \in OpCodes : code_in = CodeInput("op", op, 0)
       \/ \E byte \in 0..MaxByte : code_in = CodeInput("byte", NoOpCode, byte)
    /\ code_out = Pending
    /\ InterpIdle /\ PathIdle /\ TypeIdle /\ StackIdle /\ ManagerIdle /\ ViewIdle /\ OptionalIdle

CodeStep ==
    /\ code_out = Pending
    /\ UNCHANGED <<code_in, interpVars, pathVars, typeVars, stackVars, managerVars, viewVars, optVars>>

\* op.as_byte(), and from_byte of the byte it gave
ApplyAsByte ==
    /\ CodeStep
    /\ code_in.kind = "op"
    /\ LET byte == AsByte(code_in.op)
       IN  code_out' = [kind |-> "as_byte", byte |-> byte, op |-> FromByte(byte)]

\* OpCode::from_byte(byte), and as_byte of the opcode it gave
ApplyFromByte ==
    /\ CodeStep
    /\ code_in.kind = "byte"
    /\ LET op == FromByte(code_in.byte)
       IN  code_out' = [kind |-> "from_byte", op |-> op,
                        byte |-> IF op = NoOpCode THEN 0 - 1 ELSE AsByte(op)]

CodeNext ==
    \/ ApplyAsByte
    \/ ApplyFromByte

SpecOpcode == CodeInit /\ [][CodeNext]_vars

\* C8: from_byte(as_byte(op)) = op for every opcode; the bytes of the opcodes
\* are exactly 0..53, one opcode per byte; from_byte gives none for 54..255.
C8_OpcodeRoundTrip ==
    /\ code_out.kind = "as_byte" =>
          /\ code_out.byte \in 0..53
          /\ code_out.op = code_in.op
    /\ code_out.kind = "from_byte" =>
          IF code_in.byte <= 53
          THEN code_out.op \in OpCodes /\ code_out.byte = code_in.byte
          ELSE code_out.op = NoOpCode

\* NewRange went to byte 53 and byte 53 came back as NewRange
C8_Witness ==
    /\ code_out.kind = "as_byte"
    /\ code_in.op = "NewRange"
    /\ code_out.byte = 53
    /\ code_out.op = "NewRange"

====
